---- MODULE Spec2Model ----
(***************************************************************************)
(* psk: the interactive selection engine (select_multiple_custom) of       *)
(* src/process_killer/prompt_utils.py, the caller's commit step            *)
(* (ProcessDisplay.select_processes) and the termination orchestrator      *)
(* (ProcessTerminator.kill_selected_processes).                            *)
(*                                                                         *)
(* Strings are sequences of one-character strings.  Stable indices, the    *)
(* cursor and page boundaries are 0-based as in the Python source; a       *)
(* Python list l is a TLA+ sequence s with l[i] = s[i+1].                  *)
(***************************************************************************)
EXTENDS Integers, Sequences, FiniteSets

\* ------------------------------------------------------------------ bounds
MaxProcs == 2      \* longest process list handed to the engine
MaxQuery == 1      \* longest search query typed
MaxTyped == 2      \* longest search query typed in a session of search editing

\* ------------------------------------------------------- Python primitives
Min(a, b) == IF a < b THEN a ELSE b
Max(a, b) == IF a > b THEN a ELSE b

\* the table str.lower() applies to the ASCII letters
UpperToLower ==
    [A |-> "a", B |-> "b", C |-> "c", D |-> "d", E |-> "e", F |-> "f",
     G |-> "g", H |-> "h", I |-> "i", J |-> "j", K |-> "k", L |-> "l",
     M |-> "m", N |-> "n", O |-> "o", P |-> "p", Q |-> "q", R |-> "r",
     S |-> "s", T |-> "t", U |-> "u", V |-> "v", W |-> "w", X |-> "x",
     Y |-> "y", Z |-> "z"]

LowerChar(c) == IF c \in DOMAIN UpperToLower THEN UpperToLower[c] ELSE c

\* str.lower()
Lower(s) == [i \in 1..Len(s) |-> LowerChar(s[i])]

\* Python's `sub in s` on strings
Contains(sub, s) ==
    \E k \in 0..(Len(s) - Len(sub)) :
        \A j \in 1..Len(sub) : s[k + j] = sub[j]

\* Python's s.startswith(prefix)
StartsWith(s, prefix) ==
    /\ Len(prefix) <= Len(s)
    /\ \A j \in 1..Len(prefix) : s[j] = prefix[j]

\* Python's l[i] is defined for -len(l) <= i < len(l) and raises IndexError
\* otherwise; a negative i counts from the end.
IndexOk(l, i) == -Len(l) <= i /\ i < Len(l)
PyIndex(l, i) == IF i >= 0 THEN l[i + 1] ELSE l[Len(l) + i + 1]

\* --------------------------------------------- common/process_utils.py
SYSTEM_USERS == {"root", "daemon", "_", "nobody", "www", "mail", "sshd", "postfix"}

SYSTEM_PROCESS_NAMES == {
    <<"k","e","r","n","e","l","_","t","a","s","k">>,
    <<"l","a","u","n","c","h","d">>,
    <<"W","i","n","d","o","w","S","e","r","v","e","r">>,
    <<"l","o","g","i","n","w","i","n","d","o","w">>,
    <<"U","s","e","r","E","v","e","n","t","A","g","e","n","t">>,
    <<"s","y","s","p","o","l","i","c","y","d">>,
    <<"t","r","u","s","t","d">>,
    <<"k","e","x","t","d">>,
    <<"f","s","e","v","e","n","t","s","d">>,
    <<"m","d","s">>,
    <<"m","d","w","o","r","k","e","r">>,
    <<"m","d","w","o","r","k","e","r","_","s","h","a","r","e","d">>,
    <<"c","l","o","u","d","d">>,
    <<"c","o","m",".","a","p","p","l","e">>,
    <<"c","o","m",".","a","p","p","l","e",".","W","e","b","K","i","t">>,
    <<"V","T","D","e","c","o","d","e","r","X","P","C","S","e","r","v","i","c","e">>,
    <<"h","i","d","d">>,
    <<"d","i","s","t","n","o","t","e","d">>,
    <<"c","o","r","e","a","u","d","i","o","d">>,
    <<"b","l","u","e","t","o","o","t","h","d">>,
    <<"a","i","r","p","o","r","t","d">>,
    <<"c","o","n","f","i","g","d">>,
    <<"n","e","t","w","o","r","k","s","e","t","u","p","d">>,
    <<"n","e","t","w","o","r","k","d">>,
    <<"p","o","w","e","r","d">>,
    <<"t","h","e","r","m","a","l","m","o","n","i","t","o","r","d">>,
    <<"d","i","s","k","a","r","b","i","t","r","a","t","i","o","n","d">>,
    <<"f","s","c","k">>,
    <<"f","s","c","k","_","h","f","s">>,
    <<"f","s","c","k","_","a","p","f","s">>,
    <<"m","o","u","n","t">>,
    <<"k","e","x","t","s","t","a","t">>,
    <<"k","e","x","t","l","o","a","d">>,
    <<"k","e","x","t","u","n","l","o","a","d">> }

SYSTEM_PATHS ==
    { <<"/","s","y","s","t","e","m","/">>,
      <<"/","u","s","r","/","l","i","b","e","x","e","c","/">> }

\* The names of SYSTEM_PROCESS_NAMES are matched as written (mixed case)
\* against the lower-cased process name.
is_system_process(proc) ==
    LET process_name == Lower(proc.name)
        command == Lower(proc.command)
    IN  \/ proc.pid = 1
        \/ proc.user \in SYSTEM_USERS
        \/ \E sys_name \in SYSTEM_PROCESS_NAMES : Contains(sys_name, process_name)
        \/ \E path \in SYSTEM_PATHS : StartsWith(command, path)

\* ------------------------------------------------- the engine's key surface
excluded_keys == {"d", "e", "q"}

\* string.ascii_lowercase + ascii_uppercase + digits + punctuation, without
\* the characters whose lower case is a reserved letter
allowed_chars == {
    "a", "b", "c", "f", "g", "h", "i", "j", "k", "l", "m", "n",
    "o", "p", "r", "s", "t", "u", "v", "w", "x", "y", "z", "A",
    "B", "C", "F", "G", "H", "I", "J", "K", "L", "M", "N", "O",
    "P", "R", "S", "T", "U", "V", "W", "X", "Y", "Z", "0", "1",
    "2", "3", "4", "5", "6", "7", "8", "9", ".", "-", "_", "(",
    ")", "[", "]", "{", "}", "@", "#", "$", "%", "^", "&", "*",
    "+", "=", "!", "?", ";", ":", ",", "<", ">", "\\", "|", "`",
    "~", "'", "\"" }

\* the printable character the model types: an upper-case letter, matched
\* against labels that hold it in upper and in lower case
TypedChars == {"B"}

\* ------------------------------------------------------- the model's inputs
\* One offered entry: the ProcessInfo fields the engine reads and the label
\* shown for it.  The pids are 100, 101, ... in the order of the list.
\* cpu and mem are the percentages of ps in tenths (0.1 % is 1).
\* In turn: a user process, a system process (by its user), and a process
\* the exclusion keyword matches.
Offerings == <<
    [user |-> "me",   ppid |-> "1", name |-> <<"A","B">>, command |-> <<"A","B">>,
     label |-> <<"A","B">>, cpu |-> 10, mem |-> 30, stat |-> <<"S">>,
     start |-> <<"1","0",":","3","0">>],
    [user |-> "root", ppid |-> "0", name |-> <<"b"," ">>, command |-> <<"b"," ">>,
     label |-> <<"b"," ">>, cpu |-> 0, mem |-> 5, stat |-> <<"S","s">>,
     start |-> <<"J","a","n","0","1">>],
    [user |-> "me",   ppid |-> "7", name |-> <<"a","/">>, command |-> <<"a","/">>,
     label |-> <<"a","/">>, cpu |-> 25, mem |-> 10, stat |-> <<"Z">>,
     start |-> <<"0","9",":","1","5">>] >>

\* the list of n entries that starts at the r-th offering and takes them in turn
Offered(n, r) == [i \in 1..n |-> Offerings[((i - 1 + r) % Len(Offerings)) + 1]]

\* exclusion lists the engine is started with: none, or one keyword that only
\* matches case-insensitively
ExcludeLists == { <<>>, << <<"A","/">> >> }

\* psk's own pid: one that is not in the snapshot, or that of its first record
OwnPids == {99, 100}

VARIABLES
    choices,             \* the (value, label) pairs; value is the stable index
    process_data,        \* the ProcessInfo records, parallel to choices
    exclude_list,        \* the exclusion keywords
    selected_indices,    \* set of selected stable indices
    current_index,       \* current_index[0]: cursor into the filtered view
    filter_system,       \* filter_system[0]: the hide-toggle
    search_mode,         \* search_mode[0]
    search_query,        \* search_query[0]
    show_title_detail,   \* show_title_detail[0]: Detail overlay open
    title_detail_index,  \* title_detail_index[0]: stable index shown in it
    app,                 \* "running", or how app.run() ended
    result,              \* what select_multiple_custom returned
    raised,              \* the key handled last, or its redraw, raised IndexError
    exit_key,            \* history: the key that ended the session
    toggled,             \* history: stable indices Space acted on an odd number of times
    eclipsed,            \* history: toggled-on indices that have been out of the view since
    searchScope,         \* history: the view and selection when / opened the search
    last_key,            \* history: the key handled last, in a session that is traced
    prev_index,          \* history: the cursor before that key
    pc,                  \* where the caller of the engine stands
    processes,           \* the caller's (sorted) ProcessInfo list
    name_filter,         \* ProcessKiller.name_filter (<<>> is None)
    current_pid,         \* os.getpid()
    selected,            \* kill_selected_processes: indices of the selected records
    signal_sent,         \* kill_selected_processes: those whose SIGTERM was sent
    still_running,       \* kill_selected_processes: those found alive afterwards
    loop_i,              \* kill_selected_processes: position of the running loop
    os_kill,             \* every os.kill call made, in order: pid, signal, outcome
    sort_by,             \* ProcessKiller.run: its sort_by argument
    choice,              \* the sort mode _execute_sort_option is called with
    console              \* the message run or _execute_sort_option printed last

engineLocals ==
    <<selected_indices, current_index, filter_system, search_mode, search_query,
      show_title_detail, title_detail_index>>

engineInputs == <<choices, process_data, exclude_list>>

vars ==
    <<choices, process_data, exclude_list, selected_indices, current_index,
      filter_system, search_mode, search_query, show_title_detail,
      title_detail_index, app, result, raised, exit_key, toggled, eclipsed,
      searchScope, last_key, prev_index, pc, processes, name_filter, current_pid, selected, signal_sent,
      still_running, loop_i, os_kill, sort_by, choice, console>>

killerLocals == <<selected, signal_sent, still_running, loop_i, os_kill>>

session == <<sort_by, choice, console>>

callerState == <<pc, processes, name_filter, current_pid, killerLocals, session>>

history == <<toggled, eclipsed, searchScope, last_key, prev_index>>

page_size == 20

Pending == [kind |-> "pending", value |-> {}]
None == [kind |-> "None", value |-> {}]
ListOf(s) == [kind |-> "list", value |-> s]

\* ------------------------------------------------------------ the view
is_excluded_process(proc) ==
    /\ exclude_list # <<>>
    /\ \E k \in 1..Len(exclude_list) :
           Contains(Lower(exclude_list[k]), Lower(proc.name))

\* an entry is skipped by the hide-toggle
HiddenByToggle(idx, fs) ==
    /\ fs
    /\ process_data # <<>>
    /\ idx < Len(process_data)
    /\ \/ is_system_process(process_data[idx + 1])
       \/ is_excluded_process(process_data[idx + 1])

\* variant: the query is matched against the label as written
MissedBySearchCaseSensitive(idx, sm, sq) ==
    /\ sm
    /\ sq # <<>>
    /\ ~Contains(sq, choices[idx + 1][2])

\* an entry is skipped by the search
MissedBySearch(idx, sm, sq) ==
    /\ sm
    /\ sq # <<>>
    /\ ~Contains(Lower(sq), Lower(choices[idx + 1][2]))

\* get_filtered_choices for the given hide-toggle, search mode and query
get_filtered_choices(fs, sm, sq) ==
    LET enumerated == [k \in 1..Len(choices) |-> <<k - 1, choices[k]>>]
        Appended(e) == ~(HiddenByToggle(e[1], fs) \/ MissedBySearch(e[1], sm, sq))
        kept == SelectSeq(enumerated, Appended)
    IN  [k \in 1..Len(kept) |-> kept[k][2]]

filtered == get_filtered_choices(filter_system, search_mode, search_query)

get_page_start(ci) == (ci \div page_size) * page_size

get_page_end(ci, flt) == Min(get_page_start(ci) + page_size, Len(flt))

\* ------------------------------------------------------------ rendering
\* render_content indexes filtered[i] for i from page_start on; an index
\* below -len(filtered) raises IndexError.
render_content_raises(ci, flt) ==
    \E i \in get_page_start(ci)..(get_page_end(ci, flt) - 1) :
        i < Len(flt) /\ ~IndexOk(flt, i)

PlaceholderRow == [kind |-> "placeholder", idx |-> -1, checkbox |-> "", prefix |-> ""]

\* variant: the checkbox is looked up by the row's position in the view
render_content_by_position(ci, flt, sel) ==
    LET page_start == get_page_start(ci)
        page_end == get_page_end(ci, flt)
        count == Max(0, Min(page_end, Len(flt)) - page_start)
        row(i) ==
            [kind |-> "row",
             idx |-> PyIndex(flt, i)[1],
             checkbox |-> IF i \in sel THEN "[X]" ELSE "[ ]",
             prefix |-> IF i = ci THEN "> " ELSE "  "]
        rows == [k \in 1..count |-> row(page_start + k - 1)]
    IN  IF rows = <<>> THEN <<PlaceholderRow>> ELSE rows

\* the rows render_content returns when it does not raise
render_content(ci, flt, sel) ==
    LET page_start == get_page_start(ci)
        page_end == get_page_end(ci, flt)
        count == Max(0, Min(page_end, Len(flt)) - page_start)
        row(i) ==
            LET original_idx == PyIndex(flt, i)[1]
            IN  [kind |-> "row",
                 idx |-> original_idx,
                 checkbox |-> IF original_idx \in sel THEN "[X]" ELSE "[ ]",
                 prefix |-> IF i = ci THEN "> " ELSE "  "]
        rows == [k \in 1..count |-> row(page_start + k - 1)]
    IN  IF rows = <<>> THEN <<PlaceholderRow>> ELSE rows

\* get_current_command indexes filtered[current_index] when
\* current_index < len(filtered)
get_current_command_raises(ci, flt) == ci < Len(flt) /\ ~IndexOk(flt, ci)

get_current_command(ci, flt) ==
    IF ci < Len(flt) /\ process_data # <<>> /\ PyIndex(flt, ci)[1] < Len(process_data)
    THEN process_data[PyIndex(flt, ci)[1] + 1].command
    ELSE <<>>

\* variant: the status line is the same in search mode
get_status_text_any_mode(ci, flt, sel, fs, sm, sq) ==
    [kind |-> "status",
     position |-> ci + 1,
     total |-> Len(flt),
     selected_count |-> Cardinality(sel),
     filter_status |-> IF fs THEN "Excluded processes hidden"
                             ELSE "All processes shown",
     exclusions |-> IF fs THEN Len(exclude_list) ELSE 0]

\* get_status_text: the fields the status line is formatted from
get_status_text(ci, flt, sel, fs, sm, sq) ==
    IF sm
    THEN [kind |-> "search", query |-> sq, total |-> Len(flt)]
    ELSE [kind |-> "status",
          position |-> ci + 1,
          total |-> Len(flt),
          selected_count |-> Cardinality(sel),
          filter_status |-> IF fs THEN "Excluded processes hidden"
                                  ELSE "All processes shown",
          exclusions |-> IF fs THEN Len(exclude_list) ELSE 0]

\* get_container: with the Detail overlay open only the detail window is
\* drawn; otherwise the command strip, the status line and the list are.
RedrawRaises(ci, fs, sm, sq, std) ==
    /\ ~std
    /\ LET flt == get_filtered_choices(fs, sm, sq)
       IN  render_content_raises(ci, flt) \/ get_current_command_raises(ci, flt)

NoScope == [state |-> "none", view |-> <<>>, sel |-> {}, narrowed |-> FALSE]

\* the keys that edit the search query
QueryEditKeys == TypedChars \cup {"space", "backspace", "/"}

\* stable indices of the entries of a view
ViewIndices(flt) == UNION {{view[k][1] : k \in 1..Len(view)} : view \in {flt}}

\* a session started at "keys" records each key and the cursor it met
Trace(key) ==
    /\ last_key' = IF pc = "keys" THEN key ELSE last_key
    /\ prev_index' = IF pc = "keys" THEN current_index ELSE prev_index

\* History variables, written after the handler: which toggled-on entries
\* have been out of the filtered view, and the search scope opened by /.
History(key) ==
    /\ Trace(key)
    /\ eclipsed' =
           IF toggled' = {} THEN {}
           ELSE (eclipsed \cap toggled') \cup
                (toggled' \ ViewIndices(get_filtered_choices(filter_system', search_mode',
                                                            search_query')))
    /\ searchScope' =
           IF key = "/" /\ ~search_mode /\ search_mode'
           THEN [state |-> "open", view |-> filtered, sel |-> selected_indices,
                 narrowed |-> FALSE]
           ELSE IF searchScope.state = "open" /\ key \in QueryEditKeys
           THEN [searchScope EXCEPT !.narrowed =
                    @ \/ get_filtered_choices(filter_system', search_mode',
                                              search_query') # searchScope.view]
           ELSE IF searchScope.state = "open" /\ key = "escape"
           THEN [searchScope EXCEPT !.state = "closed"]
           ELSE NoScope

\* The redraw that follows a handled key.  An IndexError leaves the handler
\* or the redraw; whether the event loop survives it is decided outside this
\* repository, so both outcomes are kept.
AfterKey(key) ==
    /\ History(key)
    /\ IF RedrawRaises(current_index', filter_system', search_mode',
                       search_query', show_title_detail')
       THEN raised' = TRUE /\ app' \in {"running", "raised"}
       ELSE raised' = FALSE /\ UNCHANGED app
    /\ exit_key' = IF app' = "raised" THEN key ELSE exit_key

\* the handler itself raises IndexError before changing anything
HandlerRaises(key) ==
    /\ raised' = TRUE
    /\ app' \in {"running", "raised"}
    /\ exit_key' = IF app' = "raised" THEN key ELSE exit_key
    /\ searchScope' = NoScope
    /\ Trace(key)
    /\ UNCHANGED <<engineLocals, result, toggled, eclipsed>>

\* when select_multiple_custom returns, its locals cease to exist
LocalsGone ==
    /\ selected_indices' = {}
    /\ current_index' = 0
    /\ filter_system' = FALSE
    /\ search_mode' = FALSE
    /\ search_query' = <<>>
    /\ show_title_detail' = FALSE
    /\ title_detail_index' = 0

\* variant: closing the overlay also leaves search mode
CloseDetailLeavesSearch ==
    /\ show_title_detail' = FALSE
    /\ search_mode' = FALSE
    /\ search_query' = <<>>
    /\ UNCHANGED <<selected_indices, current_index, filter_system,
                   title_detail_index, result, toggled>>

\* every handler's first branch: a key pressed with the Detail overlay open
\* closes the overlay and does nothing else
CloseDetail ==
    /\ show_title_detail' = FALSE
    /\ UNCHANGED <<selected_indices, current_index, filter_system, search_mode,
                   search_query, title_detail_index, result, toggled>>

\* ------------------------------------------------------------ key handlers
\* the longest query the session at hand is followed to
QueryCap == IF pc = "typing" THEN MaxTyped ELSE MaxQuery

move_up ==
    /\ app = "running"
    /\ IF show_title_detail
       THEN CloseDetail
       ELSE /\ current_index' = IF current_index > 0 THEN current_index - 1
                                                     ELSE current_index
            /\ UNCHANGED <<selected_indices, filter_system, search_mode, search_query,
                           show_title_detail, title_detail_index, result, toggled>>
    /\ UNCHANGED <<engineInputs, callerState>>
    /\ AfterKey("up")

\* variant: Down on the last row goes to the first
move_down_wraps ==
    /\ app = "running"
    /\ IF show_title_detail
       THEN CloseDetail
       ELSE /\ current_index' = IF current_index < Len(filtered) - 1
                                THEN current_index + 1 ELSE 0
            /\ UNCHANGED <<selected_indices, filter_system, search_mode, search_query,
                           show_title_detail, title_detail_index, result, toggled>>
    /\ UNCHANGED <<engineInputs, callerState>>
    /\ AfterKey("down")

move_down ==
    /\ app = "running"
    /\ IF show_title_detail
       THEN CloseDetail
       ELSE /\ current_index' = IF current_index < Len(filtered) - 1
                                THEN current_index + 1 ELSE current_index
            /\ UNCHANGED <<selected_indices, filter_system, search_mode, search_query,
                           show_title_detail, title_detail_index, result, toggled>>
    /\ UNCHANGED <<engineInputs, callerState>>
    /\ AfterKey("down")

\* variant: PageUp moves one page from the cursor
PageUpFromCursor(ci) == Max(0, ci - page_size)

\* the body of page_up after its overlay check
PageUpTarget(ci) ==
    IF get_page_start(ci) > 0 THEN Max(0, get_page_start(ci) - page_size) ELSE 0

\* variant: PageDown moves one page from the cursor
PageDownFromCursor(ci, flt) == Min(Len(flt) - 1, ci + page_size)

\* the body of page_down after its overlay check
PageDownTarget(ci, flt) ==
    IF get_page_end(ci, flt) < Len(flt)
    THEN Min(Len(flt) - 1, get_page_end(ci, flt))
    ELSE Len(flt) - 1

page_up_key(key) ==
    /\ app = "running"
    /\ IF show_title_detail
       THEN CloseDetail
       ELSE /\ current_index' = PageUpTarget(current_index)
            /\ UNCHANGED <<selected_indices, filter_system, search_mode, search_query,
                           show_title_detail, title_detail_index, result, toggled>>
    /\ UNCHANGED <<engineInputs, callerState>>
    /\ AfterKey(key)

page_down_key(key) ==
    /\ app = "running"
    /\ IF show_title_detail
       THEN CloseDetail
       ELSE /\ current_index' = PageDownTarget(current_index, filtered)
            /\ UNCHANGED <<selected_indices, filter_system, search_mode, search_query,
                           show_title_detail, title_detail_index, result, toggled>>
    /\ UNCHANGED <<engineInputs, callerState>>
    /\ AfterKey(key)

page_up == page_up_key("pageup")

page_down == page_down_key("pagedown")

\* Control+F calls page_up and Control+B calls page_down, and only with the
\* overlay closed: with it open they do nothing at all.
page_up_alt ==
    IF ~show_title_detail
    THEN page_up_key("c-f")
    ELSE /\ app = "running"
         /\ UNCHANGED <<engineLocals, engineInputs, callerState, result, toggled>>
         /\ AfterKey("c-f")

page_down_alt ==
    IF ~show_title_detail
    THEN page_down_key("c-b")
    ELSE /\ app = "running"
         /\ UNCHANGED <<engineLocals, engineInputs, callerState, result, toggled>>
         /\ AfterKey("c-b")

\* variant: Space only ever adds
ToggleIndexAddOnly(sel, original_idx) == sel \cup {original_idx}

\* lines 332-335: flip the membership of one stable index
ToggleIndex(sel, original_idx) ==
    IF original_idx \in sel THEN sel \ {original_idx} ELSE sel \cup {original_idx}

\* variant: the cursor is taken as a 1-based row number
IndexAboveCursor == PyIndex(filtered, current_index - 1)[1]

\* the stable index of the row the cursor is on (Python indexing)
IndexUnderCursor == PyIndex(filtered, current_index)[1]

toggle_selection ==
    /\ app = "running"
    /\ UNCHANGED <<engineInputs, callerState>>
    /\ IF show_title_detail
       THEN CloseDetail /\ AfterKey("space")
       ELSE IF search_mode
       THEN /\ Len(search_query) < QueryCap
            /\ search_query' = Append(search_query, " ")
            /\ current_index' = 0
            /\ UNCHANGED <<selected_indices, filter_system, search_mode,
                           show_title_detail, title_detail_index, result, toggled>>
            /\ AfterKey("space")
       ELSE IF current_index < Len(filtered)
       THEN IF ~IndexOk(filtered, current_index)
            THEN HandlerRaises("space")
            ELSE /\ selected_indices' = ToggleIndex(selected_indices, IndexUnderCursor)
                 /\ toggled' = (toggled \ {IndexUnderCursor}) \cup
                               ({IndexUnderCursor} \ toggled)
                 /\ UNCHANGED <<current_index, filter_system, search_mode, search_query,
                                show_title_detail, title_detail_index, result>>
                 /\ AfterKey("space")
       ELSE /\ UNCHANGED <<engineLocals, result, toggled>>
            /\ AfterKey("space")

show_detail ==
    /\ app = "running"
    /\ UNCHANGED <<engineInputs, callerState>>
    /\ IF show_title_detail
       THEN CloseDetail /\ AfterKey("d")
       ELSE IF current_index < Len(filtered)
       THEN IF ~IndexOk(filtered, current_index)
            THEN HandlerRaises("d")
            ELSE /\ IF IndexUnderCursor < Len(process_data)
                    THEN /\ show_title_detail' = TRUE
                         /\ title_detail_index' = IndexUnderCursor
                    ELSE UNCHANGED <<show_title_detail, title_detail_index>>
                 /\ UNCHANGED <<selected_indices, current_index, filter_system,
                                search_mode, search_query, result, toggled>>
                 /\ AfterKey("d")
       ELSE /\ UNCHANGED <<engineLocals, result, toggled>>
            /\ AfterKey("d")

\* lines 359-361: the cursor after the hide-toggle changed the view
ClampCursor(ci, flt) == IF ci >= Len(flt) THEN Max(0, Len(flt) - 1) ELSE ci

\* variant: in search mode e is search text like any other letter
toggle_filter_typed ==
    /\ app = "running"
    /\ UNCHANGED <<engineInputs, callerState>>
    /\ IF show_title_detail
       THEN CloseDetail
       ELSE IF search_mode
       THEN /\ Len(search_query) < QueryCap
            /\ search_query' = Append(search_query, "e")
            /\ current_index' = 0
            /\ UNCHANGED <<selected_indices, filter_system, search_mode,
                           show_title_detail, title_detail_index, result, toggled>>
       ELSE /\ filter_system' = ~filter_system
            /\ current_index' =
                   ClampCursor(current_index,
                               get_filtered_choices(~filter_system, search_mode,
                                                    search_query))
            /\ UNCHANGED <<selected_indices, search_mode, search_query,
                           show_title_detail, title_detail_index, result, toggled>>
    /\ AfterKey("e")

toggle_filter ==
    /\ app = "running"
    /\ UNCHANGED <<engineInputs, callerState>>
    /\ IF show_title_detail
       THEN CloseDetail
       ELSE /\ filter_system' = ~filter_system
            /\ current_index' =
                   ClampCursor(current_index,
                               get_filtered_choices(~filter_system, search_mode,
                                                    search_query))
            /\ UNCHANGED <<selected_indices, search_mode, search_query,
                           show_title_detail, title_detail_index, result, toggled>>
    /\ AfterKey("e")

\* event.app.exit(result=...): app.run() returns the value and
\* select_multiple_custom returns it
Exit(key, value) ==
    /\ result' = value
    /\ app' = "returned"
    /\ exit_key' = key
    /\ LocalsGone
    /\ eclipsed' = {}
    /\ searchScope' = NoScope
    /\ Trace(key)
    /\ raised' = FALSE
    /\ UNCHANGED toggled

confirm ==
    /\ app = "running"
    /\ UNCHANGED <<engineInputs, callerState>>
    /\ IF show_title_detail
       THEN CloseDetail /\ AfterKey("enter")
       ELSE Exit("enter", ListOf(selected_indices))

\* the handler bound to both q and Control+C
\* variant: the overlay check is missing
cancel_without_overlay_check(key) ==
    /\ app = "running"
    /\ key \in {"q", "c-c"}
    /\ UNCHANGED <<engineInputs, callerState>>
    /\ Exit(key, None)

\* variant: q leaves the engine with the selected set
cancel_commits(key) ==
    /\ app = "running"
    /\ key \in {"q", "c-c"}
    /\ UNCHANGED <<engineInputs, callerState>>
    /\ IF show_title_detail
       THEN CloseDetail /\ AfterKey(key)
       ELSE Exit(key, ListOf(selected_indices))

cancel(key) ==
    /\ app = "running"
    /\ key \in {"q", "c-c"}
    /\ UNCHANGED <<engineInputs, callerState>>
    /\ IF show_title_detail
       THEN CloseDetail /\ AfterKey(key)
       ELSE Exit(key, None)

\* lines 472-476: KeyboardInterrupt or EOFError leaves app.run()
interrupted ==
    /\ app = "running"
    /\ UNCHANGED <<engineInputs, callerState>>
    /\ Exit("KeyboardInterrupt", None)

start_search ==
    /\ app = "running"
    /\ UNCHANGED <<engineInputs, callerState>>
    /\ IF ~show_title_detail /\ ~search_mode
       THEN /\ search_mode' = TRUE
            /\ search_query' = <<>>
            /\ current_index' = 0
            /\ UNCHANGED <<selected_indices, filter_system, show_title_detail,
                           title_detail_index, result, toggled>>
       ELSE IF search_mode
       THEN /\ Len(search_query) < QueryCap
            /\ search_query' = Append(search_query, "/")
            /\ current_index' = 0
            /\ UNCHANGED <<selected_indices, filter_system, search_mode,
                           show_title_detail, title_detail_index, result, toggled>>
       ELSE UNCHANGED <<engineLocals, result, toggled>>
    /\ AfterKey("/")

handle_char(c) ==
    /\ app = "running"
    /\ c \in allowed_chars
    /\ UNCHANGED <<engineInputs, callerState>>
    /\ IF search_mode
       THEN /\ Len(search_query) < QueryCap
            /\ search_query' = Append(search_query, c)
            /\ current_index' = 0
            /\ UNCHANGED <<selected_indices, filter_system, search_mode,
                           show_title_detail, title_detail_index, result, toggled>>
       ELSE UNCHANGED <<engineLocals, result, toggled>>
    /\ AfterKey(c)

\* variant: Backspace empties the query
handle_backspace_clears ==
    /\ app = "running"
    /\ UNCHANGED <<engineInputs, callerState>>
    /\ IF search_mode /\ search_query # <<>>
       THEN /\ search_query' = <<>>
            /\ current_index' = 0
            /\ UNCHANGED <<selected_indices, filter_system, search_mode,
                           show_title_detail, title_detail_index, result, toggled>>
       ELSE UNCHANGED <<engineLocals, result, toggled>>
    /\ AfterKey("backspace")

handle_backspace ==
    /\ app = "running"
    /\ UNCHANGED <<engineInputs, callerState>>
    /\ IF search_mode /\ search_query # <<>>
       THEN /\ search_query' = SubSeq(search_query, 1, Len(search_query) - 1)
            /\ current_index' = 0
            /\ UNCHANGED <<selected_indices, filter_system, search_mode,
                           show_title_detail, title_detail_index, result, toggled>>
       ELSE UNCHANGED <<engineLocals, result, toggled>>
    /\ AfterKey("backspace")

\* variant: the query survives leaving search mode
ExitSearchKeepsQuery ==
    /\ search_mode' = FALSE
    /\ current_index' = 0
    /\ UNCHANGED <<search_query, selected_indices, filter_system, show_title_detail,
                   title_detail_index, result, toggled>>

\* lines 414-418: Escape in search mode
ExitSearch ==
    /\ search_mode' = FALSE
    /\ search_query' = <<>>
    /\ current_index' = 0
    /\ UNCHANGED <<selected_indices, filter_system, show_title_detail,
                   title_detail_index, result, toggled>>

close_or_exit_search ==
    /\ app = "running"
    /\ UNCHANGED <<engineInputs, callerState>>
    /\ IF show_title_detail
       THEN CloseDetail
       ELSE IF search_mode
       THEN ExitSearch
       ELSE UNCHANGED <<engineLocals, result, toggled>>
    /\ AfterKey("escape")

\* ------------------------------------------------------------ the engine
\* select_multiple_custom up to app.run(): the choices are (i, label) as
\* select_processes builds them, default_values is not passed and
\* hide_system_processes is True.
Snapshot(offered) ==
    [i \in 1..Len(offered) |->
        [user |-> offered[i].user, pid |-> 99 + i,
         ppid |-> offered[i].ppid, cpu |-> offered[i].cpu, mem |-> offered[i].mem,
         stat |-> offered[i].stat, start |-> offered[i].start,
         name |-> offered[i].name, command |-> offered[i].command,
         selected |-> FALSE]]

\* at: "direct" for a session of the engine on its own, "typing" for one
\* that is followed through longer search queries
EngineStartAt(offered, excludes, at) ==
    /\ choices = [i \in 1..Len(offered) |-> <<i - 1, offered[i].label>>]
    /\ process_data = Snapshot(offered)
    /\ exclude_list = excludes
    /\ pc = at
    /\ sort_by = "None"
    /\ choice = "none"
    /\ console = "none"
    /\ processes = <<>>
    /\ name_filter = <<>>
    /\ current_pid = 0
    /\ selected = <<>>
    /\ signal_sent = <<>>
    /\ still_running = <<>>
    /\ loop_i = 0
    /\ os_kill = <<>>
    /\ selected_indices = {}
    /\ current_index = 0
    /\ filter_system = TRUE
    /\ search_mode = FALSE
    /\ search_query = <<>>
    /\ show_title_detail = FALSE
    /\ title_detail_index = 0
    /\ app = "running"
    /\ result = Pending
    /\ raised = FALSE
    /\ exit_key = "none"
    /\ toggled = {}
    /\ eclipsed = {}
    /\ searchScope = NoScope
    /\ last_key = "none"
    /\ prev_index = 0

EngineStart(offered, excludes) == EngineStartAt(offered, excludes, "direct")

Init ==
    \E n \in 1..MaxProcs :
        \E r \in 0..(Len(Offerings) - 1) :
            \E excludes \in ExcludeLists :
                EngineStart(Offered(n, r), excludes)

Next ==
    \/ move_up
    \/ move_down
    \/ page_up
    \/ page_down
    \/ page_up_alt
    \/ page_down_alt
    \/ toggle_selection
    \/ show_detail
    \/ toggle_filter
    \/ confirm
    \/ \E key \in {"q", "c-c"} : cancel(key)
    \/ interrupted
    \/ start_search
    \/ \E c \in TypedChars : handle_char(c)
    \/ handle_backspace
    \/ close_or_exit_search

Spec == Init /\ [][Next]_vars

\* ------------------------------------------- process_killer/sorter.py
\* the characters of ps's START column (digits, colon, letters) among the
\* printable ASCII characters, in code point order: str comparison is by
\* code point
AsciiOrder == <<
    " ", "-", ".", "/",
    "0", "1", "2", "3", "4", "5", "6", "7", "8", "9", ":",
    "A", "B", "C", "D", "E", "F", "G", "H", "I", "J", "K", "L", "M", "N", "O",
    "P", "Q", "R", "S", "T", "U", "V", "W", "X", "Y", "Z",
    "a", "b", "c", "d", "e", "f", "g", "h", "i", "j", "k", "l", "m", "n", "o",
    "p", "q", "r", "s", "t", "u", "v", "w", "x", "y", "z" >>

Ord(c) == CHOOSE i \in 1..Len(AsciiOrder) : AsciiOrder[i] = c

\* Python's a < b on strings
StrLess(a, b) ==
    \E k \in 1..(Min(Len(a), Len(b)) + 1) :
        /\ \A j \in 1..(k - 1) : a[j] = b[j]
        /\ IF k > Len(a) THEN k <= Len(b)
           ELSE k <= Len(b) /\ Ord(a[k]) < Ord(b[k])

\* variant: records of equal key come out in reverse order
sorted_ties_reversed(procs, before) ==
    LET Ahead(i) ==
            {j \in 1..Len(procs) : before[j][i] \/ (~before[i][j] /\ j > i)}
        At(k) == CHOOSE i \in 1..Len(procs) : Cardinality(Ahead(i)) = k - 1
    IN  [k \in 1..Len(procs) |-> procs[At(k)]]

\* Python's sorted(): a stable sort.  before[i][j] says that the key of
\* procs[i] sorts strictly before that of procs[j]; the record at position i
\* moves behind every record that sorts before it and every earlier record of
\* equal key.
sorted(procs, before) ==
    LET Ahead(i) ==
            {j \in 1..Len(procs) : before[j][i] \/ (~before[i][j] /\ j < i)}
        At(k) == CHOOSE i \in 1..Len(procs) : Cardinality(Ahead(i)) = k - 1
    IN  [k \in 1..Len(procs) |-> procs[At(k)]]

\* key=..., reverse=True: the greater key first
sort_general(procs) ==
    sorted(procs, [i \in 1..Len(procs) |-> [j \in 1..Len(procs) |->
                       procs[i].cpu + procs[i].mem > procs[j].cpu + procs[j].mem]])

sort_memory(procs) ==
    sorted(procs, [i \in 1..Len(procs) |-> [j \in 1..Len(procs) |->
                       procs[i].mem > procs[j].mem]])

sort_cpu(procs) ==
    sorted(procs, [i \in 1..Len(procs) |-> [j \in 1..Len(procs) |->
                       procs[i].cpu > procs[j].cpu]])

sort_uptime(procs) ==
    sorted(procs, [i \in 1..Len(procs) |-> [j \in 1..Len(procs) |->
                       StrLess(procs[i].start, procs[j].start)]])

\* 'Z' in p.stat
IsZombie(p) == Contains(<<"Z">>, p.stat)

IsNoZombie(p) == ~IsZombie(p)

\* variant: the zombies are appended
sort_zombie_last(procs) == SelectSeq(procs, IsNoZombie) \o SelectSeq(procs, IsZombie)

sort_zombie(procs) == SelectSeq(procs, IsZombie) \o SelectSeq(procs, IsNoZombie)

\* ProcessSorter.sort_options: the keys, in the order of the dict
sort_options == <<"general", "memory", "cpu", "uptime", "zombie">>

SortModes == {sort_options[i] : i \in 1..Len(sort_options)}

\* sort_func(all_processes) for the sort_func of sort_options[mode]
sort_func(mode, procs) ==
    CASE mode = "general" -> sort_general(procs)
      [] mode = "memory" -> sort_memory(procs)
      [] mode = "cpu" -> sort_cpu(procs)
      [] mode = "uptime" -> sort_uptime(procs)
      [] mode = "zombie" -> sort_zombie(procs)

\* ------------------------------------------- process_killer/filter.py
\* ProcessFilter.is_excluded, with ProcessFilter.exclude_list = exclude_list
is_excluded(proc) ==
    /\ exclude_list # <<>>
    /\ \E k \in 1..Len(exclude_list) :
           Contains(Lower(exclude_list[k]), Lower(proc.name))

matches_name_filter(proc) ==
    \/ name_filter = <<>>
    \/ Contains(Lower(name_filter), Lower(proc.name))

\* --------------------------------------------- process_killer/main.py
\* _execute_sort_option, lines 117-123: the snapshot is sorted by the chosen
\* mode; the local `choice` is not read again and is dropped here
execute_sort ==
    /\ pc = "sort"
    /\ processes' = sort_func(choice, processes)
    /\ IF processes' = <<>>
       THEN pc' = "done" /\ console' = "no_match"
       ELSE pc' = "select_processes" /\ UNCHANGED console
    /\ choice' = "none"
    /\ UNCHANGED <<engineInputs, engineLocals, app, result, raised, exit_key, history,
                   name_filter, current_pid, killerLocals, sort_by>>

\* ------------------------------------------ process_killer/display.py
\* the decimal digits of a natural number
RECURSIVE Digits(_)
Digits(n) ==
    LET d == <<"0","1","2","3","4","5","6","7","8","9">>[(n % 10) + 1]
    IN  IF n < 10 THEN <<d>> ELSE Append(Digits(n \div 10), d)

\* f"{n:3d}": right-aligned in three columns
Pad3(n) ==
    LET ds == Digits(n)
    IN  [k \in 1..(3 - Min(3, Len(ds))) |-> " "] \o ds

\* The label of line 115: number, name and pid.  The columns after them
\* (padding of the name, CPU and MEM) and the emoji flags hold none of the
\* characters the model types other than the blank, which the label holds
\* already, and are left out.
Label(i, proc) ==
    Pad3(i + 1) \o <<".", " ">> \o proc.name \o <<" ","P","I","D",":"," ">>
        \o Digits(proc.pid)

\* variant: excluded processes are offered too
OfferExcludedToo(proc) ==
    /\ proc.pid # current_pid
    /\ ~is_system_process(proc)
    /\ ~(name_filter # <<>> /\ ~matches_name_filter(proc))

\* variant: system processes are offered too
OfferSystemToo(proc) ==
    /\ proc.pid # current_pid
    /\ ~is_excluded(proc)
    /\ ~(name_filter # <<>> /\ ~matches_name_filter(proc))

\* lines 49-66: the records offered to the user
Offer(proc) ==
    /\ proc.pid # current_pid
    /\ ~is_system_process(proc)
    /\ ~is_excluded(proc)
    /\ ~(name_filter # <<>> /\ ~matches_name_filter(proc))

filtered_processes == SelectSeq(processes, Offer)

\* select_processes up to app.run() inside select_multiple_custom
select_processes_begin ==
    /\ pc = "select_processes"
    /\ IF processes = <<>> \/ filtered_processes = <<>>
       THEN /\ pc' = "kill"
            /\ UNCHANGED <<engineInputs, engineLocals, app>>
       ELSE /\ pc' = "selecting"
            /\ choices' = [i \in 1..Len(filtered_processes) |->
                              <<i - 1, Label(i - 1, filtered_processes[i])>>]
            /\ process_data' = filtered_processes
            /\ UNCHANGED exclude_list
            /\ selected_indices' = {}
            /\ current_index' = 0
            /\ filter_system' = TRUE
            /\ search_mode' = FALSE
            /\ search_query' = <<>>
            /\ show_title_detail' = FALSE
            /\ title_detail_index' = 0
            /\ app' = "running"
    /\ UNCHANGED <<result, raised, exit_key, history, processes, name_filter,
                   current_pid, session, killerLocals>>

\* variant: a stable index is taken as a position in the caller's list
CommittedByPosition(selection) ==
    [i \in 1..Len(processes) |->
        [processes[i] EXCEPT !.selected = ((i - 1) \in selection)]]

\* lines 134-146: the selected flags after a non-empty selection
Committed(selection) ==
    LET FirstWithPid(pid) ==
            CHOOSE i \in 1..Len(processes) :
                /\ processes[i].pid = pid
                /\ \A j \in 1..(i - 1) : processes[j].pid # pid
        marked ==
            {FirstWithPid(process_data[idx + 1].pid) :
                idx \in {x \in selection : 0 <= x /\ x < Len(process_data)}}
    IN  [i \in 1..Len(processes) |->
            [processes[i] EXCEPT !.selected = (i \in marked)]]

\* variant: what was toggled is applied whatever the result is
CommitResultOfToggled(r) == Committed(toggled)

\* lines 127-146: what select_processes does with the engine's result
CommitResult(r) ==
    IF r = None \/ r.value = {} THEN processes ELSE Committed(r.value)

\* select_processes from the return of select_multiple_custom on; an
\* IndexError that left the engine passes through select_processes and
\* _execute_sort_option, and kill_selected_processes is not called
select_processes_commit ==
    /\ pc = "selecting"
    /\ app \in {"returned", "raised"}
    /\ IF app = "raised"
       THEN pc' = "IndexError" /\ UNCHANGED processes
       ELSE pc' = "kill" /\ processes' = CommitResult(result)
    /\ app' = "idle"
    /\ LocalsGone
    /\ UNCHANGED <<engineInputs, result, raised, exit_key, history, name_filter,
                   current_pid, session, killerLocals>>

\* -------------------------------------- common/questionary_utils.py
\* what happens at a questionary prompt: an entry is picked, Escape or
\* Control+C is pressed, or the prompt fails (no terminal)
Answers == {"yes", "no", "escape", "interrupt", "exception"}

\* variant: a prompt that fails yields the default, which both callers set
\* to True
select_yes_no_or_default(answer) ==
    CASE answer = "yes" -> "True"
      [] answer = "no" -> "False"
      [] answer = "escape" -> "CancelledError"
      [] answer = "interrupt" -> "KeyboardInterrupt"
      [] OTHER -> "True"

\* select_yes_no with raise_on_cancel left True: what the caller sees, a
\* returned value or the exception raised
select_yes_no(answer) ==
    CASE answer = "yes" -> "True"
      [] answer = "no" -> "False"
      [] answer = "escape" -> "CancelledError"
      [] answer = "interrupt" -> "KeyboardInterrupt"
      [] OTHER -> "None"

\* ------------------------------------------- process_killer/killer.py
\* variant: every record of the list is taken, selected or not
SelectedOfAll(procs) == [k \in 1..Len(procs) |-> k]

\* line 23: the selected records, as positions in the list
SelectedOf(procs) ==
    LET F[k \in 0..Len(procs)] ==
            IF k = 0 THEN <<>>
            ELSE IF procs[k].selected THEN Append(F[k - 1], k) ELSE F[k - 1]
    IN  F[Len(procs)]

kill_begin ==
    /\ pc = "kill"
    /\ selected' = SelectedOf(processes)
    /\ pc' = IF selected' = <<>> THEN "done" ELSE "confirm"
    /\ UNCHANGED <<engineInputs, engineLocals, app, result, raised, exit_key, history,
                   processes, name_filter, current_pid, session, signal_sent, still_running,
                   loop_i, os_kill>>

\* lines 34-43: `if not select_yes_no(...)` and the two except clauses
kill_confirm(answer) ==
    /\ pc = "confirm"
    /\ IF select_yes_no(answer) = "True"
       THEN pc' = "sigterm" /\ loop_i' = 1
       ELSE pc' = "done" /\ UNCHANGED loop_i
    /\ UNCHANGED <<engineInputs, engineLocals, app, result, raised, exit_key, history,
                   processes, name_filter, current_pid, session, selected, signal_sent,
                   still_running, os_kill>>

\* one os.kill call and its outcome
Call(p, sig, ok) == [pid |-> processes[p].pid, sig |-> sig, ok |-> ok]

\* variant: the first failed send ends the batch
kill_sigterm_or_abort(ok) ==
    /\ pc = "sigterm"
    /\ os_kill' = Append(os_kill, Call(selected[loop_i], "SIGTERM", ok))
    /\ signal_sent' = IF ok THEN Append(signal_sent, selected[loop_i]) ELSE signal_sent
    /\ IF ok /\ loop_i < Len(selected)
       THEN loop_i' = loop_i + 1 /\ UNCHANGED pc
       ELSE /\ loop_i' = 1
            /\ pc' = IF signal_sent' = <<>> \/ ~ok THEN "done" ELSE "probe"
    /\ UNCHANGED <<engineInputs, engineLocals, app, result, raised, exit_key, history,
                   processes, name_filter, current_pid, session, selected, still_running>>

\* variant: the run goes on to the verification when no send succeeded
kill_sigterm_no_return(ok) ==
    /\ pc = "sigterm"
    /\ os_kill' = Append(os_kill, Call(selected[loop_i], "SIGTERM", ok))
    /\ signal_sent' = IF ok THEN Append(signal_sent, selected[loop_i]) ELSE signal_sent
    /\ IF loop_i < Len(selected)
       THEN loop_i' = loop_i + 1 /\ UNCHANGED pc
       ELSE /\ loop_i' = 1
            /\ pc' = IF signal_sent' = <<>> THEN "confirm_force" ELSE "probe"
    /\ UNCHANGED <<engineInputs, engineLocals, app, result, raised, exit_key, history,
                   processes, name_filter, current_pid, session, selected, still_running>>

\* lines 47-63: one turn of the SIGTERM loop
kill_sigterm(ok) ==
    /\ pc = "sigterm"
    /\ os_kill' = Append(os_kill, Call(selected[loop_i], "SIGTERM", ok))
    /\ signal_sent' = IF ok THEN Append(signal_sent, selected[loop_i]) ELSE signal_sent
    /\ IF loop_i < Len(selected)
       THEN loop_i' = loop_i + 1 /\ UNCHANGED pc
       ELSE /\ loop_i' = 1
            /\ pc' = IF signal_sent' = <<>> THEN "done" ELSE "probe"
    /\ UNCHANGED <<engineInputs, engineLocals, app, result, raised, exit_key, history,
                   processes, name_filter, current_pid, session, selected, still_running>>

\* lines 69-78: one turn of the liveness loop; os.kill(pid, 0) succeeds when
\* the process is alive
kill_probe(alive) ==
    /\ pc = "probe"
    /\ os_kill' = Append(os_kill, Call(signal_sent[loop_i], "0", alive))
    /\ still_running' = IF alive THEN Append(still_running, signal_sent[loop_i])
                                 ELSE still_running
    /\ IF loop_i < Len(signal_sent)
       THEN loop_i' = loop_i + 1 /\ UNCHANGED pc
       ELSE /\ loop_i' = 1
            /\ pc' = IF still_running' = <<>> THEN "done" ELSE "confirm_force"
    /\ UNCHANGED <<engineInputs, engineLocals, app, result, raised, exit_key, history,
                   processes, name_filter, current_pid, session, selected, signal_sent>>

\* lines 87-88 and 110-113: the second confirmation
kill_confirm_force(answer) ==
    /\ pc = "confirm_force"
    /\ IF select_yes_no(answer) = "True"
       THEN pc' = "sigkill" /\ loop_i' = 1
       ELSE pc' = "done" /\ UNCHANGED loop_i
    /\ UNCHANGED <<engineInputs, engineLocals, app, result, raised, exit_key, history,
                   processes, name_filter, current_pid, session, selected, signal_sent,
                   still_running, os_kill>>

\* variant: the SIGKILL loop is left after its first turn
kill_sigkill_first_only(ok) ==
    /\ pc = "sigkill"
    /\ os_kill' = Append(os_kill, Call(still_running[loop_i], "SIGKILL", ok))
    /\ loop_i' = 1
    /\ pc' = "reprobe"
    /\ UNCHANGED <<engineInputs, engineLocals, app, result, raised, exit_key, history,
                   processes, name_filter, current_pid, session, selected, signal_sent,
                   still_running>>

\* lines 89-97: one turn of the SIGKILL loop
kill_sigkill(ok) ==
    /\ pc = "sigkill"
    /\ os_kill' = Append(os_kill, Call(still_running[loop_i], "SIGKILL", ok))
    /\ IF loop_i < Len(still_running)
       THEN loop_i' = loop_i + 1 /\ UNCHANGED pc
       ELSE loop_i' = 1 /\ pc' = "reprobe"
    /\ UNCHANGED <<engineInputs, engineLocals, app, result, raised, exit_key, history,
                   processes, name_filter, current_pid, session, selected, signal_sent,
                   still_running>>

\* lines 99-109: one turn of the final liveness loop
kill_reprobe(alive) ==
    /\ pc = "reprobe"
    /\ os_kill' = Append(os_kill, Call(still_running[loop_i], "0", alive))
    /\ IF loop_i < Len(still_running)
       THEN loop_i' = loop_i + 1 /\ UNCHANGED pc
       ELSE loop_i' = 1 /\ pc' = "done"
    /\ UNCHANGED <<engineInputs, engineLocals, app, result, raised, exit_key, history,
                   processes, name_filter, current_pid, session, selected, signal_sent,
                   still_running>>

\* ------------------------------------------------ the whole pipeline
\* name filters given on the command line: none, or one keyword
NameFilters == { <<>>, <<"b">> }

\* sort modes the pipeline is run with
PipelineModes == {"general", "zombie"}

\* _execute_sort_option after get_process_info returned a fresh, non-empty
\* snapshot (every selected flag False) that holds psk itself or not
PipelineStart(offered, excludes, nf, own, mode) ==
    /\ processes = Snapshot(offered)
    /\ exclude_list = excludes
    /\ name_filter = nf
    /\ current_pid = own
    /\ pc = "sort"
    /\ sort_by = "None"
    /\ choice = mode
    /\ console = "collecting"
    /\ choices = <<>>
    /\ process_data = <<>>
    /\ selected_indices = {}
    /\ current_index = 0
    /\ filter_system = FALSE
    /\ search_mode = FALSE
    /\ search_query = <<>>
    /\ show_title_detail = FALSE
    /\ title_detail_index = 0
    /\ app = "idle"
    /\ result = Pending
    /\ raised = FALSE
    /\ exit_key = "none"
    /\ toggled = {}
    /\ eclipsed = {}
    /\ searchScope = NoScope
    /\ last_key = "none"
    /\ prev_index = 0
    /\ selected = <<>>
    /\ signal_sent = <<>>
    /\ still_running = <<>>
    /\ loop_i = 0
    /\ os_kill = <<>>

InitPipeline ==
    \E n \in 1..MaxProcs :
        \E r \in 0..(Len(Offerings) - 1) :
            \E excludes \in ExcludeLists :
                \E nf \in NameFilters :
                    \E own \in OwnPids :
                        \E mode \in PipelineModes :
                            PipelineStart(Offered(n, r), excludes, nf, own, mode)

NextPipeline ==
    \/ execute_sort
    \/ select_processes_begin
    \/ Next
    \/ select_processes_commit
    \/ kill_begin
    \/ \E answer \in Answers : kill_confirm(answer)
    \/ \E ok \in BOOLEAN : kill_sigterm(ok)
    \/ \E alive \in BOOLEAN : kill_probe(alive)
    \/ \E answer \in Answers : kill_confirm_force(answer)
    \/ \E ok \in BOOLEAN : kill_sigkill(ok)
    \/ \E alive \in BOOLEAN : kill_reprobe(alive)

SpecPipeline == InitPipeline /\ [][NextPipeline]_vars

\* ------------------------------------------- runs of the terminator alone
MaxKill == 3       \* longest list handed to kill_selected_processes

\* kill_selected_processes called on a list of records: no engine is running
\* and no os.kill call has been made
KillStart(procs) ==
    /\ processes = procs
    /\ exclude_list = <<>>
    /\ name_filter = <<>>
    /\ current_pid = 99
    /\ pc = "kill"
    /\ sort_by = "None"
    /\ choice = "general"
    /\ console = "collecting"
    /\ choices = <<>>
    /\ process_data = <<>>
    /\ selected_indices = {}
    /\ current_index = 0
    /\ filter_system = FALSE
    /\ search_mode = FALSE
    /\ search_query = <<>>
    /\ show_title_detail = FALSE
    /\ title_detail_index = 0
    /\ app = "idle"
    /\ result = Pending
    /\ raised = FALSE
    /\ exit_key = "none"
    /\ toggled = {}
    /\ eclipsed = {}
    /\ searchScope = NoScope
    /\ last_key = "none"
    /\ prev_index = 0
    /\ selected = <<>>
    /\ signal_sent = <<>>
    /\ still_running = <<>>
    /\ loop_i = 0
    /\ os_kill = <<>>

\* the list is a snapshot on which any of the records may have been selected
InitKill ==
    \E n \in 1..MaxKill :
        \E flags \in [1..n -> BOOLEAN] :
            KillStart([i \in 1..n |->
                          [Snapshot(Offered(n, 0))[i] EXCEPT !.selected = flags[i]]])

NextKill ==
    \/ kill_begin
    \/ \E answer \in Answers : kill_confirm(answer)
    \/ \E ok \in BOOLEAN : kill_sigterm(ok)
    \/ \E alive \in BOOLEAN : kill_probe(alive)
    \/ \E answer \in Answers : kill_confirm_force(answer)
    \/ \E ok \in BOOLEAN : kill_sigkill(ok)
    \/ \E alive \in BOOLEAN : kill_reprobe(alive)

SpecKill == InitKill /\ [][NextKill]_vars

\* ------------------------------------------------------- cli/main.py
MaxArg == 3        \* longest --excludes argument

\* the characters an --excludes argument is written with; the space is the
\* only whitespace among them
ArgChars == {"a", "B", ",", " "}

Whitespace == {" "}

\* the strings of at most n characters
Strings(n) == UNION {[1..k -> ArgChars] : k \in 0..n}

\* the --excludes arguments; the empty one also stands for the option left out
\* (None), which `if excludes:` treats alike
ExcludesArgs == Strings(MaxArg)

\* str.split(','): the runs between the commas, of which there is always one
Split(s) ==
    LET F[k \in 0..Len(s)] ==
            IF k = 0 THEN << <<>> >>
            ELSE IF s[k] = "," THEN Append(F[k - 1], <<>>)
            ELSE [F[k - 1] EXCEPT ![Len(F[k - 1])] = Append(@, s[k])]
    IN  F[Len(s)]

\* str.strip(): leading and trailing whitespace removed
Strip(s) ==
    LET inked == {i \in 1..Len(s) : s[i] \notin Whitespace}
    IN  IF inked = {} THEN <<>>
        ELSE LET first == CHOOSE i \in inked : \A j \in inked : i <= j
                 last == CHOOSE i \in inked : \A j \in inked : j <= i
             IN  SubSeq(s, first, last)

\* variant: an element that is empty after trimming is dropped
run_process_killer_drop_empty(excludes) ==
    IF excludes # <<>>
    THEN SelectSeq([i \in 1..Len(Split(excludes)) |-> Strip(Split(excludes)[i])],
                   LAMBDA kw : kw # <<>>)
    ELSE <<>>

\* run_process_killer, lines 25-27: the exclusion list built from --excludes
run_process_killer(excludes) ==
    IF excludes # <<>>
    THEN [i \in 1..Len(Split(excludes)) |-> Strip(Split(excludes)[i])]
    ELSE <<>>

\* run_process_killer with --by: the pipeline is started on a snapshot with
\* the exclusion list built from the --excludes argument
InitCli ==
    \E excludes \in ExcludesArgs :
        \E n \in 1..MaxProcs :
            \E r \in 0..(Len(Offerings) - 1) :
                PipelineStart(Offered(n, r), run_process_killer(excludes), <<>>, 99, "general")

\* the pipeline up to the start of the engine, and the terminator's entry
\* when select_processes returned without starting it
NextCli ==
    \/ execute_sort
    \/ select_processes_begin
    \/ kill_begin

SpecCli == InitCli /\ [][NextCli]_vars

\* ------------------------------------------------------- paging sessions
MaxRows == 45      \* longest list paged through

\* the engine started on n ordinary entries, all in view
PlainStart(n) == EngineStart([i \in 1..n |-> Offerings[1]], <<>>)

\* the paging sessions are traced
InitPaging ==
    \E n \in 1..MaxRows : EngineStartAt([i \in 1..n |-> Offerings[1]], <<>>, "keys")

\* the page keys and Up: a row below the cursor is reached by paging only
NextPaging ==
    \/ move_up
    \/ page_up
    \/ page_down
    \/ page_up_alt
    \/ page_down_alt

SpecPaging == InitPaging /\ [][NextPaging]_vars

\* --------------------------------------- sessions on ordinary records
MaxPlain == 3      \* longest list of ordinary records

\* every key, on a list none of whose records is system or excluded
InitPlain == \E n \in 1..MaxPlain : PlainStart(n)

SpecPlain == InitPlain /\ [][Next]_vars

\* ------------------------------------------ the session: ProcessKiller.run
\* pc holds the place the session is at; while an exception travels from
\* _execute_sort_option to run it holds the exception's name.
Propagating == {"IndexError", "Exception", "KeyboardInterrupt"}

\* values of --by: not given (None), the empty string, a valid mode, and a
\* word that is no mode
SortBys == {"None", "", "zombie", "bogus"}

\* Python's truth value of sort_by
Truthy(s) == s \notin {"None", ""}

\* line 67: `if sort_by:`
Given(s) == Truthy(s)

MenuAnswers == SortModes \cup {"exit", "escape", "interrupt", "exception"}

\* select_single: the value picked, or the exception it raises
select_single(answer) ==
    CASE answer = "escape" -> "CancelledError"
      [] answer = "interrupt" -> "KeyboardInterrupt"
      [] answer = "exception" -> "Exception"
      [] OTHER -> answer

\* show_menu: CancelledError becomes "exit"; other exceptions pass through
show_menu(answer) ==
    LET picked == select_single(answer)
    IN  IF picked = "CancelledError" THEN "exit" ELSE picked

\* run up to the first call of _execute_sort_option or show_menu
run_begin ==
    /\ pc = "run"
    /\ IF Given(sort_by)
       THEN IF sort_by \notin SortModes
            THEN pc' = "exited" /\ console' = "invalid_sort" /\ UNCHANGED choice
            ELSE pc' = "collect" /\ choice' = sort_by /\ UNCHANGED console
       ELSE pc' = "menu" /\ UNCHANGED <<choice, console>>
    /\ UNCHANGED <<engineInputs, engineLocals, app, result, raised, exit_key, history,
                   processes, name_filter, current_pid, killerLocals, sort_by>>

\* one turn of the menu loop up to the call of _execute_sort_option: lines
\* 86-106 with show_menu
run_menu(answer) ==
    /\ pc = "menu"
    /\ LET picked == show_menu(answer)
       IN  CASE picked \in {"KeyboardInterrupt", "exit"} ->
                    pc' = "exited" /\ console' = "bye" /\ UNCHANGED choice
             [] picked = "Exception" ->
                    pc' = "menu" /\ console' = "error_Exception" /\ UNCHANGED choice
             [] OTHER ->
                    pc' = "collect" /\ choice' = picked /\ UNCHANGED console
    /\ UNCHANGED <<engineInputs, engineLocals, app, result, raised, exit_key, history,
                   processes, name_filter, current_pid, killerLocals, sort_by>>

MaxSnap == 2       \* longest snapshot ps yields in a session

\* what get_process_info can meet: nothing, `ps aux` failing
\* (CalledProcessError), another exception (ps missing, a field that does
\* not parse), Control+C
Faults == {"none", "CalledProcessError", "Exception", "KeyboardInterrupt"}

SessionSnapshots == {Snapshot(Offered(n, 0)) : n \in 0..MaxSnap}

\* get_process_info when it returns: CalledProcessError is caught and gives []
get_process_info(fault, snap) == IF fault = "CalledProcessError" THEN <<>> ELSE snap

\* variant: an empty snapshot is passed on
CollectedUnchecked(all_processes) == "sort"

\* lines 113-115: where _execute_sort_option goes with the snapshot
Collected(all_processes) == IF all_processes = <<>> THEN "done" ELSE "sort"

\* _execute_sort_option, lines 110-115
execute_collect(fault, snap) ==
    /\ pc = "collect"
    /\ IF fault \in Propagating
       THEN pc' = fault /\ console' = "collecting" /\ UNCHANGED processes
       ELSE /\ processes' = get_process_info(fault, snap)
            /\ pc' = Collected(processes')
            /\ console' = IF pc' = "done" THEN "collect_failed" ELSE "collecting"
    /\ UNCHANGED <<engineInputs, engineLocals, app, result, raised, exit_key, history,
                   name_filter, current_pid, killerLocals, sort_by, choice>>

\* variant: the loop ends when the iteration raised
AfterIterationStopOnError(from) ==
    IF from = "done" /\ ~Given(sort_by) THEN "menu" ELSE "exited"

\* where run goes when _execute_sort_option has returned or raised: lines
\* 73-83 and 95-106
AfterIteration(from) ==
    IF from = "KeyboardInterrupt" \/ Given(sort_by) THEN "exited" ELSE "menu"

\* run after _execute_sort_option: the except clauses, and the return or the
\* next turn of the loop; the objects of the finished iteration are dropped
\* when the loop goes on
run_return ==
    /\ pc \in {"done"} \cup Propagating
    /\ pc' = AfterIteration(pc)
    /\ console' = CASE pc = "KeyboardInterrupt" -> "bye"
                    [] pc = "IndexError" -> "error_IndexError"
                    [] pc = "Exception" -> "error_Exception"
                    [] OTHER -> console
    /\ IF pc' = "menu"
       THEN /\ processes' = <<>>
            /\ choices' = <<>>
            /\ process_data' = <<>>
            /\ result' = Pending
            /\ raised' = FALSE
            /\ exit_key' = "none"
            /\ toggled' = {}
            /\ eclipsed' = {}
            /\ searchScope' = NoScope
            /\ UNCHANGED <<last_key, prev_index>>
            /\ selected' = <<>>
            /\ signal_sent' = <<>>
            /\ still_running' = <<>>
            /\ loop_i' = 0
            /\ os_kill' = <<>>
       ELSE UNCHANGED <<processes, choices, process_data, result, raised, exit_key,
                        history, killerLocals>>
    /\ UNCHANGED <<exclude_list, engineLocals, app, name_filter, current_pid, sort_by,
                   choice>>

\* ProcessKiller(exclude_list=None, name_filter=None).run(sort_by)
SessionStart(by) ==
    /\ sort_by = by
    /\ pc = "run"
    /\ choice = "none"
    /\ console = "none"
    /\ processes = <<>>
    /\ exclude_list = <<>>
    /\ name_filter = <<>>
    /\ current_pid = 99
    /\ choices = <<>>
    /\ process_data = <<>>
    /\ selected_indices = {}
    /\ current_index = 0
    /\ filter_system = FALSE
    /\ search_mode = FALSE
    /\ search_query = <<>>
    /\ show_title_detail = FALSE
    /\ title_detail_index = 0
    /\ app = "idle"
    /\ result = Pending
    /\ raised = FALSE
    /\ exit_key = "none"
    /\ toggled = {}
    /\ eclipsed = {}
    /\ searchScope = NoScope
    /\ last_key = "none"
    /\ prev_index = 0
    /\ selected = <<>>
    /\ signal_sent = <<>>
    /\ still_running = <<>>
    /\ loop_i = 0
    /\ os_kill = <<>>

InitSession == \E by \in SortBys : SessionStart(by)

NextSession ==
    \/ run_begin
    \/ \E answer \in MenuAnswers : run_menu(answer)
    \/ \E fault \in Faults : \E snap \in SessionSnapshots : execute_collect(fault, snap)
    \/ NextPipeline
    \/ run_return

SpecSession == InitSession /\ [][NextSession]_vars

\* ------------------------------------ the START column, as ps prints it
\* ps prints the time of day (HH:MM) for a process started today and a date
\* token (MmmDD) for an older one; calculate_uptime tells the two apart by the
\* colon.
Digit(c) == Ord(c) - Ord("0")

MonthNames == <<
    <<"J","a","n">>, <<"F","e","b">>, <<"M","a","r">>, <<"A","p","r">>,
    <<"M","a","y">>, <<"J","u","n">>, <<"J","u","l">>, <<"A","u","g">>,
    <<"S","e","p">>, <<"O","c","t">>, <<"N","o","v">>, <<"D","e","c">> >>

MonthOf(name) == CHOOSE m \in 1..Len(MonthNames) : MonthNames[m] = name

\* when the process started, as a number that grows with time: the day of
\* the year for a date token, and a minute of today, after every date, for a
\* time of day
StartedAt(start) ==
    IF Contains(<<":">>, start)
    THEN 1000 + (Digit(start[1]) * 10 + Digit(start[2])) * 60
              + Digit(start[4]) * 10 + Digit(start[5])
    ELSE MonthOf(SubSeq(start, 1, 3)) * 31 + Digit(start[4]) * 10 + Digit(start[5])

\* ------------------------------------------------- the sort step on its own
MaxSort == 3       \* longest list handed to a sort strategy

\* the records ps can offer to a sort: the offerings, a zombie with the
\* lowest CPU and memory figures of all, and the youngest record, which has
\* the highest CPU figure, no memory, and the CPU + memory sum of the first
\* offering
SortKinds ==
    {Offerings[k] : k \in 1..Len(Offerings)}
        \cup {[Offerings[2] EXCEPT !.stat = <<"Z","s">>]}
        \cup {[Offerings[1] EXCEPT !.cpu = 40, !.mem = 0,
                                   !.start = <<"J","a","n","0","2">>]}

SortInputs == UNION {[1..n -> SortKinds] : n \in 1..MaxSort}

InitSort ==
    \E offered \in SortInputs :
        \E mode \in SortModes :
            PipelineStart(offered, <<>>, <<>>, 99, mode)

NextSort == execute_sort

SpecSort == InitSort /\ [][NextSort]_vars

\* ------------------------------------- the engine followed through a search
\* one or two entries, no exclusion keyword, queries of up to MaxTyped
\* characters
InitTyping ==
    \E n \in 1..2 :
        \E r \in 0..(Len(Offerings) - 1) :
            EngineStartAt(Offered(n, r), <<>>, "typing")

SpecTyping == InitTyping /\ [][Next]_vars

\* ------------------------------------------------------- traced sessions
MaxKeys == 3       \* longest list of a traced session

\* lists that hold ordinary, system and zombie records, with each key and the
\* cursor it met recorded
InitKeys ==
    \E n \in 1..MaxKeys :
        \E r \in 0..(Len(Offerings) - 1) :
            EngineStartAt(Offered(n, r), <<>>, "keys")

\* the keys of Normal mode that move the cursor, change the view or the
\* selection, or open and close the overlay
NextKeys ==
    \/ move_up
    \/ move_down
    \/ page_down
    \/ toggle_selection
    \/ show_detail
    \/ toggle_filter
    \/ close_or_exit_search

SpecKeys == InitKeys /\ [][NextKeys]_vars

\* ================================================================ claims
\* the list is on screen: the engine runs and the Detail overlay is closed
ListDrawn == app = "running" /\ ~show_title_detail

\* the rows on screen, when the list is drawn and its redraw did not raise
DrawnRows == render_content(current_index, filtered, selected_indices)

RowsOf(i) == {k \in 1..Len(DrawnRows) : DrawnRows[k].kind = "row" /\ DrawnRows[k].idx = i}

\* C1: an entry toggled on with Space stays in the selected set through
\* every later key, in particular through hide-toggle flips and search edits
\* that hide it and show it again, and whenever its row is drawn the row
\* carries [X]; the selected set is the set of stable indices toggled on,
\* whatever the filtered view is.
C1_StableIndexSelection ==
    app = "running" =>
        /\ selected_indices = toggled
        /\ (ListDrawn /\ ~raised) =>
               \A i \in toggled : \A k \in RowsOf(i) : DrawnRows[k].checkbox = "[X]"

\* an entry toggled on, hidden since, is drawn again and carries [X]
C1_Witness ==
    /\ ListDrawn
    /\ ~raised
    /\ \E i \in eclipsed : \E k \in RowsOf(i) : DrawnRows[k].checkbox = "[X]"

\* C2: Enter returns exactly the stable indices toggled an odd number of
\* times, each a valid index into the unfiltered choices; a cancel key (q,
\* Control+C) or an interrupt returns None whatever was toggled.
C2_SelectionCommit ==
    app = "returned" =>
        /\ exit_key = "enter" =>
               /\ result = ListOf(toggled)
               /\ \A i \in result.value : 0 <= i /\ i < Len(choices)
        /\ exit_key \in {"q", "c-c", "KeyboardInterrupt"} => result = None

\* Enter returned a non-empty selection
C2_Witness ==
    /\ app = "returned"
    /\ exit_key = "enter"
    /\ result.kind = "list"
    /\ result.value # {}

\* C3: after any key event the cursor satisfies
\* 0 <= cursor < max(1, len(filtered)), also when the view is empty.
C3_CursorClamped ==
    /\ 0 <= current_index
    /\ current_index < Max(1, Len(filtered))

\* C4: with an empty filtered view no key raises an out-of-range access, in
\* that step and in every later one, and the redraw yields the placeholder
\* row.
C4_EmptyViewErrorFree ==
    /\ ~raised
    /\ (ListDrawn /\ filtered = <<>>) => DrawnRows = <<PlaceholderRow>>

\* the entries the claim of C5 says are in the view
Visible(idx) ==
    /\ ~(filter_system /\ (\/ is_system_process(process_data[idx + 1])
                          \/ is_excluded_process(process_data[idx + 1])))
    /\ search_query # <<>> =>
           Contains(Lower(search_query), Lower(choices[idx + 1][2]))

VisibleSet == {idx \in 0..(Len(choices) - 1) : Visible(idx)}

\* the k-th smallest member of a set of integers
Kth(S, k) == CHOOSE i \in S : Cardinality({j \in S : j < i}) = k - 1

\* C5: the filtered view is the subsequence of the choices, in their order,
\* of exactly the entries not hidden by the hide-toggle (system or excluded)
\* and, with a non-empty query, holding the query case-insensitively.
C5_DerivedView ==
    /\ Len(filtered) = Cardinality(VisibleSet)
    /\ \A k \in 1..Len(filtered) : filtered[k] = choices[Kth(VisibleSet, k) + 1]
    /\ Len(filtered) <= Len(choices)

\* a query is active and the hide-toggle is on; part of the list is in view
C5_Witness ==
    /\ app = "running"
    /\ search_query # <<>>
    /\ filter_system
    /\ Len(filtered) >= 1
    /\ Len(filtered) < Len(choices)

\* C6 as stated: Control+C ends the session with None in every mode, the
\* Detail overlay included.
C6_InterruptKeyAlwaysCancels ==
    [][cancel("c-c") => (app' = "returned" /\ result' = None)]_vars

\* C6 as amended: with the overlay closed (Normal or Search mode) Control+C
\* ends the session with None; with the overlay open it closes the overlay
\* and changes nothing else, the session going on; an interrupt that leaves
\* app.run() as KeyboardInterrupt returns None in every mode.
C6_InterruptKey ==
    [][/\ cancel("c-c") =>
            IF show_title_detail
            THEN /\ ~show_title_detail'
                 /\ app' # "returned"
                 /\ result' = Pending
                 /\ UNCHANGED <<selected_indices, current_index, filter_system,
                                search_mode, search_query>>
            ELSE app' = "returned" /\ result' = None
       /\ interrupted => (app' = "returned" /\ result' = None)]_vars

\* Control+C ended a session in which entries had been toggled on
C6_Witness ==
    /\ app = "returned"
    /\ exit_key = "c-c"
    /\ result = None
    /\ toggled # {}

\* C7: once the engine has returned None, whatever was toggled before, every
\* record of the snapshot keeps selected = False and kill_selected_processes
\* makes no os.kill call.
C7_NoCommitOnCancel ==
    result = None =>
        /\ \A i \in 1..Len(processes) : ~processes[i].selected
        /\ os_kill = <<>>

\* a session with entries toggled on was cancelled, and select_processes and
\* kill_selected_processes have run to their end
C7_Witness ==
    /\ result = None
    /\ toggled # {}
    /\ pc = "done"

\* the selected flag of every record, by pid
FlagsByPid(procs) == {<<procs[i].pid, procs[i].selected>> : i \in 1..Len(procs)}

\* C13: the snapshot starts with every flag False; sorting and the
\* pre-filter of select_processes change no record's flag; after a confirmed
\* non-empty selection S the flag is True on exactly the records whose pid is
\* the pid of an entry shown at a stable index of S, False on all others, and
\* nothing else of a record changes.
C13_CommitTranslation ==
    /\ \A i \in 1..Len(processes) : ~processes[i].selected
    /\ [][/\ (execute_sort \/ select_processes_begin) =>
                 FlagsByPid(processes') = FlagsByPid(processes)
          /\ (/\ select_processes_commit
              /\ app = "returned"
              /\ result.kind = "list"
              /\ result.value # {}) =>
                 /\ Len(processes') = Len(processes)
                 /\ \A i \in 1..Len(processes) :
                        processes'[i] =
                            [processes[i] EXCEPT !.selected =
                                \E idx \in result.value :
                                    /\ idx < Len(process_data)
                                    /\ process_data[idx + 1].pid = processes[i].pid]]_vars

\* a selection was committed to a snapshot: one record is flagged, one that
\* the pre-filter kept off the list is not
C13_Witness ==
    /\ pc = "kill"
    /\ result.kind = "list"
    /\ Len(process_data) < Len(processes)
    /\ \E i \in 1..Len(processes) : processes[i].selected
    /\ \E i \in 1..Len(processes) : ~processes[i].selected

\* C8 as stated: the Detail overlay is never open while search mode is on.
C8_ModesExclusive == ~(show_title_detail /\ search_mode)

\* C8 as amended: the overlay is a flag beside the search mode; it can be
\* open while search mode is on; a step that opens or closes it, the session
\* going on, leaves search mode and the query as they were, so closing it
\* lands in the mode it was opened from; the query is non-empty only in
\* search mode.
C8_OverlayBesideSearch ==
    [][/\ (app' = "running" /\ show_title_detail' # show_title_detail) =>
              UNCHANGED <<search_mode, search_query>>
       /\ search_query' # <<>> => search_mode']_vars

\* the overlay is open over an active search
C8_Witness ==
    /\ app = "running"
    /\ show_title_detail
    /\ search_mode
    /\ search_query # <<>>

\* C9: while the Detail overlay is open a key at most closes it: cursor,
\* selected set, hide-toggle and query keep their values and the session
\* does not return.
C9_DetailSwallowsKeys ==
    [][(app = "running" /\ show_title_detail /\ ~interrupted) =>
           /\ UNCHANGED <<current_index, selected_indices, filter_system, search_query>>
           /\ app' # "returned"]_vars

\* C10: / pressed in Normal mode, then query edits only, then Escape: Normal
\* mode, empty query, the view of before /, cursor on row 0, selected set
\* unchanged.
C10_SearchScoping ==
    searchScope.state = "closed" =>
        /\ app = "running"
        /\ ~search_mode
        /\ ~show_title_detail
        /\ search_query = <<>>
        /\ filtered = searchScope.view
        /\ current_index = 0
        /\ selected_indices = searchScope.sel

\* such a search, which narrowed the view on the way, with entries selected
C10_Witness ==
    /\ searchScope.state = "closed"
    /\ searchScope.narrowed
    /\ searchScope.sel # {}

\* C11: on a non-empty view of length n, PageDown from cursor c gives
\* pageEnd = min((c div 20) * 20 + 20, n) when pageEnd < n, and n - 1
\* otherwise; with n = 45 it takes 0 to 20, 20 to 40 and 40 to 44.
C11_PageDown ==
    [][(page_down /\ ~show_title_detail /\ filtered # <<>>) =>
           LET n == Len(filtered)
               c == current_index
               pageEnd == Min((c \div 20) * 20 + 20, n)
           IN  /\ current_index' = IF pageEnd < n THEN pageEnd ELSE n - 1
               /\ n = 45 =>
                      /\ c = 0 => current_index' = 20
                      /\ c = 20 => current_index' = 40
                      /\ c = 40 => current_index' = 44]_vars

\* the last of 45 rows, which only PageDown reaches in a paging session
C11_Witness ==
    /\ app = "running"
    /\ Len(filtered) = 45
    /\ current_index = 44

\* the engine as k presses of Down leave it after its start: nothing
\* selected, hide-toggle on, no search, no overlay, cursor on row k
AfterDowns(k) ==
    /\ app = "running"
    /\ selected_indices = {}
    /\ filter_system
    /\ ~search_mode
    /\ search_query = <<>>
    /\ ~show_title_detail
    /\ current_index = k

\* the engine with exactly the stable index k selected and the list drawn
OnlySelected(k) ==
    /\ app = "running"
    /\ selected_indices = {k}
    /\ ~show_title_detail

\* C12: on n records none of which is system or excluded, started with the
\* hide-toggle on, Down pressed k times (k < n), then Space, then Enter
\* returns exactly {k}: the start is AfterDowns(0), Down takes AfterDowns(k)
\* to AfterDowns(k + 1), Space takes AfterDowns(k) to a state with only k
\* selected, and Enter there returns {k}.
C12_EndToEndSelection ==
    /\ AfterDowns(0)
    /\ [][\A k \in 0..(Len(choices) - 1) :
              /\ (AfterDowns(k) /\ k < Len(choices) - 1 /\ move_down) => AfterDowns(k + 1)'
              /\ (AfterDowns(k) /\ toggle_selection) => OnlySelected(k)'
              /\ (OnlySelected(k) /\ confirm) =>
                     (app' = "returned" /\ result' = ListOf({k}))]_vars

\* three records with pids 100, 101, 102: Enter returned {1}
C12_Witness ==
    /\ app = "returned"
    /\ exit_key = "enter"
    /\ [i \in 1..Len(process_data) |-> process_data[i].pid] = <<100, 101, 102>>
    /\ result = ListOf({1})

\* positions of the os.kill calls with the given signal, and those to a pid
CallsOf(sig) == {j \in 1..Len(os_kill) : os_kill[j].sig = sig}

CallsTo(sig, pid) == {j \in CallsOf(sig) : os_kill[j].pid = pid}

\* the liveness probe after the grace wait: a pid's first os.kill(pid, 0)
GraceProbes == {k \in CallsOf("0") : \A m \in CallsTo("0", os_kill[k].pid) : k <= m}

\* the pids found alive by the probe after the grace wait
Survivors == {os_kill[k].pid : k \in {g \in GraceProbes : os_kill[g].ok}}

\* what C14 says of the calls made so far
C14_Log ==
    /\ pc \in {"sort", "select_processes", "selecting", "kill", "confirm"} => os_kill = <<>>
    /\ \A j \in CallsOf("SIGKILL") :
           \E i \in CallsTo("SIGTERM", os_kill[j].pid) :
               \E k \in GraceProbes :
                   /\ os_kill[i].ok
                   /\ os_kill[k].pid = os_kill[j].pid
                   /\ os_kill[k].ok
                   /\ i < k
                   /\ k < j
    /\ \A i \in CallsOf("SIGTERM") : \A k \in CallsOf("0") : i < k
    /\ \A k \in GraceProbes : \A j \in CallsOf("SIGKILL") : k < j

\* C14: no os.kill call is made unless the first confirmation is answered
\* Yes (No, Escape, Control+C and a failed prompt end the run with none); a
\* SIGKILL goes only to a process whose SIGTERM was sent and which the probe
\* after the grace wait found alive, and only after the second confirmation
\* is answered Yes; every SIGTERM precedes every probe, and every probe after
\* the grace wait precedes every SIGKILL.
C14_ConfirmThenEscalate ==
    /\ []C14_Log
    /\ [][/\ \A answer \in Answers \ {"yes"} :
                 /\ kill_confirm(answer) => (pc' = "done" /\ os_kill' = <<>>)
                 /\ kill_confirm_force(answer) => (pc' = "done" /\ UNCHANGED os_kill)
          /\ (pc # "sigterm" /\ pc' = "sigterm") => kill_confirm("yes")
          /\ (pc # "sigkill" /\ pc' = "sigkill") => kill_confirm_force("yes")
          /\ CallsOf("SIGTERM")' # CallsOf("SIGTERM") => pc = "sigterm"
          /\ CallsOf("SIGKILL")' # CallsOf("SIGKILL") => pc = "sigkill"]_vars

\* a run that escalated: a SIGKILL was sent
C14_Witness ==
    /\ pc = "done"
    /\ CallsOf("SIGKILL") # {}

\* C15: when force was confirmed, every process the probe after the grace
\* wait found alive is sent SIGKILL exactly once and is probed exactly once
\* more, after that SIGKILL, before the run ends.
C15_TerminationEscalation ==
    /\ [](pc = "done" /\ CallsOf("SIGKILL") # {} =>
              \A p \in Survivors :
                  /\ Cardinality(CallsTo("SIGKILL", p)) = 1
                  /\ Cardinality(CallsTo("0", p) \ GraceProbes) = 1
                  /\ \A j \in CallsTo("SIGKILL", p) :
                         \A k \in CallsTo("0", p) \ GraceProbes : j < k)
    /\ [][kill_confirm_force("yes") => pc' = "sigkill"]_vars

\* two survivors were escalated and the run ended
C15_Witness ==
    /\ pc = "done"
    /\ Cardinality(Survivors) = 2
    /\ Cardinality(CallsOf("SIGKILL")) = 2

\* the pids of the selected records
SelectedPids == {processes[i].pid : i \in {x \in 1..Len(processes) : processes[x].selected}}

\* C16: a failed SIGTERM does not end the batch: once the SIGTERM loop is
\* left every selected process has been sent SIGTERM; a failed SIGKILL does
\* not end it either: once the SIGKILL loop is left every survivor has been
\* sent SIGKILL, and when the run ends every survivor has been probed again.
C16_FailureIsolation ==
    /\ (os_kill # <<>> /\ pc # "sigterm") =>
           \A p \in SelectedPids : CallsTo("SIGTERM", p) # {}
    /\ (CallsOf("SIGKILL") # {} /\ pc # "sigkill") =>
           \A p \in Survivors : CallsTo("SIGKILL", p) # {}
    /\ (CallsOf("SIGKILL") # {} /\ pc = "done") =>
           \A p \in Survivors : CallsTo("0", p) \ GraceProbes # {}

\* a SIGTERM failed and a later one, to another process, was sent
C16_Witness ==
    /\ pc = "done"
    /\ \E i \in CallsOf("SIGTERM") : \E j \in CallsOf("SIGTERM") :
           i < j /\ ~os_kill[i].ok /\ os_kill[j].ok


\* C17: when run is given a sort mode that is none of general, memory, cpu,
\* uptime, zombie, it reports the error with the list of valid values and
\* returns: no snapshot, no engine, no signal, no menu loop.
C17_InvalidConfiguration ==
    /\ [](pc = "exited" /\ console = "invalid_sort"
              => processes = <<>> /\ app = "idle" /\ os_kill = <<>>)
    /\ [][run_begin /\ sort_by # "None" /\ sort_by \notin SortModes
              => pc' = "exited" /\ console' = "invalid_sort"]_vars

C19_FaultContainment ==
    [][/\ pc \in {"IndexError", "Exception"}
            => /\ pc' = (IF Given(sort_by) THEN "exited" ELSE "menu")
               /\ console' \in {"error_IndexError", "error_Exception"}
       /\ run_menu("exception") => pc' = "menu" /\ console' = "error_Exception"
       /\ ~Given(sort_by) /\ pc # "exited" /\ pc' = "exited"
            => \/ run_menu("exit")
               \/ run_menu("escape")
               \/ run_menu("interrupt")
               \/ pc = "KeyboardInterrupt"]_vars

\* the menu is shown again after the engine of the iteration raised
C19_Witness == pc = "menu" /\ console = "error_IndexError" /\ sort_by = "None"


\* how many times record r occurs in the list
Occurrences(r, procs) == Cardinality({k \in 1..Len(procs) : procs[k] = r})

\* the position of the record with this pid in the list
PositionOf(pid, procs) == CHOOSE k \in 1..Len(procs) : procs[k].pid = pid

\* out holds the zombies of in first, and keeps in's order inside each group
ZombiesFirstOf(in, out) ==
    /\ Len(out) = Len(in)
    /\ \A k \in 1..Len(in) : Occurrences(in[k], out) = Occurrences(in[k], in)
    /\ \A i \in 1..Len(out) : \A j \in 1..Len(out) :
          i < j =>
             /\ IsZombie(out[j]) => IsZombie(out[i])
             /\ IsZombie(out[i]) = IsZombie(out[j])
                    => PositionOf(out[i].pid, in) < PositionOf(out[j].pid, in)
    /\ Cardinality({k \in 1..Len(in) : IsZombie(in[k])}) = 1 => IsZombie(out[1])

\* C20: sort_zombie returns a permutation of its input in which every record
\* whose status holds Z precedes every record without it, with the input's
\* order kept inside each group; a single zombie is at position 0 whatever
\* its CPU and memory values.
C20_ZombieFirst ==
    [][execute_sort /\ choice = "zombie" => ZombiesFirstOf(processes, processes')]_vars

\* a sorted list whose only zombie, the record with the lowest CPU and memory
\* values that was not first in the snapshot, is now first
C20_Witness ==
    /\ pc = "select_processes"
    /\ Len(processes) = MaxSort
    /\ Cardinality({k \in 1..Len(processes) : IsZombie(processes[k])}) = 1
    /\ IsZombie(processes[1])
    /\ processes[1].pid # 100
    /\ \A k \in 2..Len(processes) :
          processes[1].cpu + processes[1].mem < processes[k].cpu + processes[k].mem


\* the engine is in Search mode: search is on and the overlay is closed
InSearchMode == app = "running" /\ search_mode /\ ~show_title_detail

\* the engine is in Normal mode
InNormalMode == app = "running" /\ ~search_mode /\ ~show_title_detail

\* the key appended the text to the query, put the cursor on row 0 and left
\* the selection, the hide-toggle and the mode alone
Typed(text) ==
    /\ search_query' = search_query \o text
    /\ current_index' = 0
    /\ UNCHANGED <<selected_indices, filter_system, search_mode, show_title_detail,
                   title_detail_index, result>>

\* C21: in Search mode a bound printable character appends itself to the
\* query and puts the cursor on row 0; Space appends a space and toggles
\* nothing; / appends a slash; Backspace removes exactly the last character
\* of a non-empty query and changes nothing on an empty one; in Normal mode
\* the printable characters change nothing.
C21_SearchEditing ==
    [][/\ \A c \in TypedChars :
            /\ handle_char(c) /\ InSearchMode => Typed(<<c>>)
            /\ handle_char(c) /\ InNormalMode => UNCHANGED <<engineLocals, result>>
       /\ toggle_selection /\ InSearchMode => Typed(<<" ">>)
       /\ start_search /\ InSearchMode => Typed(<<"/">>)
       /\ handle_backspace /\ InSearchMode /\ search_query # <<>>
            => /\ search_query' = SubSeq(search_query, 1, Len(search_query) - 1)
               /\ UNCHANGED <<selected_indices, filter_system, search_mode,
                              show_title_detail, title_detail_index, result>>
       /\ handle_backspace /\ InSearchMode /\ search_query = <<>>
            => UNCHANGED <<engineLocals, result>>]_vars

\* a query of a typed character and a space, with nothing ever toggled
C21_Witness ==
    /\ InSearchMode
    /\ search_query = <<"B", " ">>
    /\ current_index = 0
    /\ toggled = {}


\* the letters bound to Detail, the hide-toggle and cancel, in either case
ReservedLetters == {"d", "e", "q", "D", "E", "Q"}

\* C22: in Search mode e still flips the hide-toggle, d still opens the
\* Detail overlay for the item under the cursor, q still cancels and Enter
\* still commits the selected set; the query never holds d, e or q in either
\* case.
C22_ReservedKeys ==
    /\ [](\A k \in 1..Len(search_query) : search_query[k] \notin ReservedLetters)
    /\ [][/\ toggle_filter /\ InSearchMode
               => /\ filter_system' = ~filter_system
                  /\ UNCHANGED <<search_mode, search_query, selected_indices>>
          /\ show_detail /\ InSearchMode
                  /\ 0 <= current_index /\ current_index < Len(filtered)
               => /\ show_title_detail'
                  /\ title_detail_index' = filtered[current_index + 1][1]
                  /\ UNCHANGED <<search_mode, search_query, selected_indices>>
          /\ cancel("q") /\ InSearchMode => app' = "returned" /\ result' = None
          /\ confirm /\ InSearchMode
               => app' = "returned" /\ result' = ListOf(selected_indices)]_vars

\* the overlay was opened over a search with a query, with the hide-toggle off
C22_Witness ==
    /\ app = "running"
    /\ search_mode
    /\ search_query # <<>>
    /\ show_title_detail
    /\ ~filter_system


\* the view a key leaves behind
NewView == get_filtered_choices(filter_system', search_mode', search_query')

\* C23: e with no overlay open flips the hide-toggle and leaves the selected
\* set and the query unchanged; afterwards the cursor is unchanged if it is a
\* valid row of the new view and is otherwise the last row of the new view
\* (0 when the new view is empty).
C23_HideToggleReclamp ==
    [][toggle_filter /\ app = "running" /\ ~show_title_detail
          => /\ filter_system' = ~filter_system
             /\ UNCHANGED <<selected_indices, search_query>>
             /\ current_index' =
                    IF 0 <= current_index /\ current_index < Len(NewView)
                    THEN current_index
                    ELSE Max(0, Len(NewView) - 1)]_vars


\* C24: with page size 20 and no overlay open, PageUp from cursor c sets the
\* cursor to max(0, pageStart - 20) with pageStart = (c div 20) * 20: the
\* first row of the previous page, row 0 from the first page; the selected
\* set, the hide-toggle and the query are unchanged.  Control+F does what
\* PageUp does.
C24_PageUp ==
    [][(page_up \/ page_up_alt) /\ app = "running" /\ ~show_title_detail
          => LET pageStart == (current_index \div 20) * 20
             IN  /\ current_index' = Max(0, pageStart - 20)
                 /\ current_index < 20 => current_index' = 0
                 /\ current_index >= 20 => current_index' = pageStart - 20
                 /\ UNCHANGED <<selected_indices, filter_system, search_mode,
                                search_query>>]_vars

\* PageUp took the cursor from the last of 45 rows to the first row of the
\* page before
C24_Witness ==
    /\ app = "running"
    /\ last_key = "pageup"
    /\ prev_index = 44
    /\ current_index = 20


\* C25: with no overlay open, Up takes one from the cursor when it is above
\* row 0 and leaves it at row 0; Down adds one when the cursor is before the
\* last row and leaves it on the last row; neither wraps around, neither
\* changes anything else.
C25_UpDownNoWrap ==
    [][/\ move_up /\ app = "running" /\ ~show_title_detail
            => /\ current_index > 0 => current_index' = current_index - 1
               /\ current_index = 0 => current_index' = 0
               /\ UNCHANGED <<selected_indices, filter_system, search_mode,
                              search_query, show_title_detail, title_detail_index,
                              result>>
       /\ move_down /\ app = "running" /\ ~show_title_detail
            => /\ current_index < Len(filtered) - 1
                      => current_index' = current_index + 1
               /\ current_index = Len(filtered) - 1
                      => current_index' = current_index
               /\ UNCHANGED <<selected_indices, filter_system, search_mode,
                              search_query, show_title_detail, title_detail_index,
                              result>>]_vars

\* Down was pressed on the last of several rows and the cursor stayed there
C25_Witness ==
    /\ app = "running"
    /\ last_key = "down"
    /\ Len(filtered) > 1
    /\ prev_index = Len(filtered) - 1
    /\ current_index = prev_index
    /\ ~show_title_detail


CancelKeys == {"q", "c-c", "KeyboardInterrupt"}

\* C27: when the engine was cancelled (q or the interrupt key), the session
\* gets a cancelled outcome: no record is marked, no process is signalled, no
\* confirmation is asked, and run then shows the menu again in menu-loop mode
\* or returns in single-shot mode.
C27_EngineCancel ==
    /\ [](exit_key \in CancelKeys
             => /\ result = None
                /\ SelectedPids = {}
                /\ os_kill = <<>>
                /\ pc \in {"selecting", "kill", "done", "exited"})
    /\ [][pc = "done" /\ exit_key \in CancelKeys
             => /\ os_kill' = <<>>
                /\ UNCHANGED console
                /\ pc' = (IF Given(sort_by) THEN "exited" ELSE "menu")]_vars

\* the iteration is over after q was pressed on a toggled selection
C27_Witness ==
    /\ pc = "done"
    /\ exit_key = "q"
    /\ toggled # {}
    /\ os_kill = <<>>


\* the status line as drawn in the current state
StatusLine ==
    get_status_text(current_index, filtered, selected_indices, filter_system,
                    search_mode, search_query)

SortKey(mode, p) ==
    CASE mode = "general" -> p.cpu + p.mem
      [] mode = "memory" -> p.mem
      [] mode = "cpu" -> p.cpu

\* out is in by non-increasing key, records of equal key in in's order
SortedByKey(mode, in, out) ==
    /\ Len(out) = Len(in)
    /\ \A k \in 1..Len(in) : Occurrences(in[k], out) = Occurrences(in[k], in)
    /\ \A i \in 1..Len(out) : \A j \in 1..Len(out) :
          i < j =>
             /\ SortKey(mode, out[i]) >= SortKey(mode, out[j])
             /\ SortKey(mode, out[i]) = SortKey(mode, out[j])
                    => PositionOf(out[i].pid, in) < PositionOf(out[j].pid, in)

\* C29: sort_general, sort_memory and sort_cpu each return a permutation of
\* the input, ordered by non-increasing cpu+mem, mem and cpu, with records of
\* equal key in their input order.
C29_SortStrategies ==
    [][execute_sort /\ choice \in {"general", "memory", "cpu"}
          => SortedByKey(choice, processes, processes')]_vars

\* the CPU order of a list that every other strategy leaves as it was: the
\* two records of highest CPU first, in their input order
C29_Witness ==
    /\ pc = "select_processes"
    /\ Len(processes) = 3
    /\ processes[1].pid = 101
    /\ processes[2].pid = 102
    /\ processes[3].pid = 100
    /\ processes[1].cpu = processes[2].cpu
    /\ processes[2].cpu > processes[3].cpu
    /\ processes[1].mem < processes[3].mem
    /\ processes[1].cpu + processes[1].mem = processes[3].cpu + processes[3].mem
    /\ ~IsZombie(processes[1])
    /\ StrLess(processes[3].start, processes[1].start)


\* C30: sort_uptime orders the records oldest first: of two records of its
\* output the earlier one did not start later than the one after it, for
\* every mix of times of day and date tokens.
C30_UptimeSort ==
    [][execute_sort /\ choice = "uptime"
          => \A i \in 1..Len(processes') : \A j \in 1..Len(processes') :
                i < j => StartedAt(processes'[i].start) <= StartedAt(processes'[j].start)]_vars


\* the record of the snapshot with this pid
RecordOf(pid) == processes[CHOOSE i \in 1..Len(processes) : processes[i].pid = pid]

\* a record select_processes must keep from the user: psk itself, a system
\* process, an excluded one, one that misses the name filter
Protected(p) ==
    \/ p.pid = current_pid
    \/ is_system_process(p)
    \/ is_excluded(p)
    \/ (name_filter # <<>> /\ ~Contains(Lower(name_filter), Lower(p.name)))

\* C31: in the full pipeline, whatever keys are pressed, no os.kill call
\* (signal or probe) names psk's own pid, a system process, an excluded
\* process or a process that misses the name filter; such records are not
\* among the choices of the engine.
C31_ProtectedNeverSignalled ==
    /\ \A j \in 1..Len(os_kill) : ~Protected(RecordOf(os_kill[j].pid))
    /\ app = "running" => \A k \in 1..Len(process_data) : ~Protected(process_data[k])

\* signals were sent while the snapshot held a protected record
C31_Witness ==
    /\ CallsOf("SIGTERM") # {}
    /\ \E i \in 1..Len(processes) : Protected(processes[i])


\* C32: in the full pipeline the hide-toggle never changes the filtered view:
\* with no search narrowing it the view is the whole choice list, e leaves it
\* as it was, and the choices are in the order of the sorted input.
C32_HideToggleInPipeline ==
    /\ [](app = "running" =>
             /\ ~(search_mode /\ search_query # <<>>) => filtered = choices
             /\ \A k \in 1..Len(process_data) : \A l \in 1..Len(process_data) :
                   k < l => PositionOf(process_data[k].pid, processes)
                                < PositionOf(process_data[l].pid, processes))
    /\ [][toggle_filter /\ app = "running" /\ ~show_title_detail
             => NewView = filtered /\ filter_system' = ~filter_system]_vars

\* the hide-toggle is off in a pipeline whose snapshot held records that are
\* not offered, and the view is the whole choice list
C32_Witness ==
    /\ app = "running"
    /\ ~filter_system
    /\ ~search_mode
    /\ Len(choices) < Len(processes)
    /\ filtered = choices


C35_SignalsOnlyToSelected ==
    /\ \A j \in 1..Len(os_kill) : os_kill[j].pid \in SelectedPids
    /\ \A p \in SelectedPids :
           /\ Cardinality(CallsTo("SIGTERM", p)) <= 1
           /\ Cardinality(CallsTo("SIGKILL", p)) <= 1
    /\ \A i \in CallsOf("SIGTERM") :
           ~os_kill[i].ok =>
               /\ CallsTo("0", os_kill[i].pid) = {}
               /\ CallsTo("SIGKILL", os_kill[i].pid) = {}

\* a finished run over a list with an unselected record, where one SIGTERM
\* failed and another process was escalated to SIGKILL
C35_Witness ==
    /\ pc = "done"
    /\ \E x \in 1..Len(processes) : ~processes[x].selected
    /\ \E i \in CallsOf("SIGTERM") : ~os_kill[i].ok
    /\ CallsOf("SIGKILL") # {}

\* C36: when the SIGTERM loop is left and no send succeeded,
\* kill_selected_processes returns at once: the run is over with no liveness
\* probe, no second confirmation and no SIGKILL, then and ever after.
C36_AllGracefulSendsFail ==
    /\ [](pc \in {"probe", "confirm_force", "sigkill", "reprobe"}
              => \E i \in CallsOf("SIGTERM") : os_kill[i].ok)
    /\ [](CallsOf("SIGTERM") # {} /\ pc # "sigterm"
            /\ (\A i \in CallsOf("SIGTERM") : ~os_kill[i].ok)
              => pc = "done" /\ CallsOf("0") = {} /\ CallsOf("SIGKILL") = {})
    /\ [][pc = "sigterm" /\ pc' # "sigterm" /\ signal_sent' = <<>>
              => pc' = "done" /\ still_running' = <<>>]_vars

\* the run ended after two sends that both failed
C36_Witness ==
    /\ pc = "done"
    /\ Cardinality(CallsOf("SIGTERM")) = 2
    /\ \A i \in 1..Len(os_kill) : os_kill[i].sig = "SIGTERM" /\ ~os_kill[i].ok


\* the keyword occurs in the name when letter case is ignored
OccursIgnoringCase(keyword, name) ==
    \E off \in 0..(Len(name) - Len(keyword)) :
        \A j \in 1..Len(keyword) : LowerChar(name[off + j]) = LowerChar(keyword[j])

\* a non-empty argument in which nothing but whitespace stands between two
\* commas, or between a comma and an end of the argument
HasEmptyElement(excludes) ==
    /\ excludes # <<>>
    /\ \E i \in 0..Len(excludes) : \E j \in (i + 1)..(Len(excludes) + 1) :
           /\ i = 0 \/ excludes[i] = ","
           /\ j = Len(excludes) + 1 \/ excludes[j] = ","
           /\ \A m \in (i + 1)..(j - 1) : excludes[m] \in Whitespace

\* C37: is_excluded(record) is true exactly when the exclusion list holds a
\* keyword that occurs in the record's name with letter case ignored, and is
\* false for every record when the list is empty; the list built from an
\* --excludes argument with an empty element holds an empty keyword; with an
\* empty keyword in the list every record is excluded and the selection engine
\* is never started.
C37_ExclusionPredicate ==
    /\ \A i \in 1..Len(processes) :
           /\ is_excluded(processes[i]) <=>
                  \E k \in 1..Len(exclude_list) :
                      OccursIgnoringCase(exclude_list[k], processes[i].name)
           /\ exclude_list = <<>> => ~is_excluded(processes[i])
    /\ \A excludes \in ExcludesArgs :
           HasEmptyElement(excludes) =>
               \E k \in 1..Len(run_process_killer(excludes)) :
                   run_process_killer(excludes)[k] = <<>>
    /\ (\E k \in 1..Len(exclude_list) : exclude_list[k] = <<>>) =>
           /\ \A i \in 1..Len(processes) : is_excluded(processes[i])
           /\ app = "idle"
           /\ choices = <<>>
           /\ pc \in {"sort", "select_processes", "kill", "done"}

\* --excludes "a," gave the keywords "a" and "": select_processes returned
\* without starting the engine on a list of two records, and nothing was
\* selected
C37_Witness ==
    /\ exclude_list = << <<"a">>, <<>> >>
    /\ Len(processes) = 2
    /\ pc = "done"
    /\ app = "idle"
    /\ os_kill = <<>>

====
